---- MODULE Spec2Model ----
(***************************************************************************)
(* Siemens Produktcheck: the normalisers of utils.js, the comparators and  *)
(* the per-row reconciliation of the three process-excel handlers          *)
(* (server.js first and second variant, and the header-driven handler).    *)
(*                                                                         *)
(* Text is a sequence of one-character strings.  An absent value (null,    *)
(* undefined, a missing key of the Web bag) is Null.  A JavaScript number  *)
(* is an exact reduced fraction [n, d]; the null number is NullNum.  The   *)
(* inputs carry at most two fractional digits, so the double arithmetic of *)
(* the code differs from the exact one by far less than the 1e-9 of the    *)
(* comparisons and than the 0.5 of Math.round.                             *)
(***************************************************************************)
EXTENDS Integers, Sequences, FiniteSets, TLC

VARIABLES
  pc,        \* position of the operation under check
  text,      \* argument of the pure function under check
  dims,      \* result of parseDimensionsToLBH(text)
  code,      \* result of mapMaterialClassificationToExcel(text)
  out,       \* result of the other normalisers applied to text
  a2v,       \* identifier of the row under reconciliation
  db,        \* DB cells of the row, by tracked field
  web,       \* Web attribute bag of the row, by key
  variant,   \* which handler processed the row
  cell,      \* what the handler wrote into the row, by column
  sheet,     \* rows of the worksheet, by row number
  tasks,     \* identifiers collected for retrieval, in sheet order
  prodRows,  \* row numbers collected for reconciliation
  resultsMap, \* identifier -> Web attribute bag, as retrieval returned it
  cache,     \* the scraper's cache: key -> result
  unique,    \* scrapeMany: the normalised, de-duplicated identifiers
  nextIndex, \* scrapeMany: the shared index i
  results,   \* scrapeMany: the result map under construction
  worker,    \* scrapeMany: each worker's position and pending scrapeOne call
  inflight,  \* scrapeOne calls started and not yet settled
  status,    \* scrapeMany: the state of the promise it returned
  DB_WEB_PAIRS, \* server.js: the module-level pair table
  requests,  \* the process-excel requests in progress, by request
  calls      \* the scrapeOne calls made on the shared scraper, by call

vars ==
  <<pc, text, dims, code, out, a2v, db, web, variant, cell, sheet, tasks, prodRows,
    resultsMap, cache, unique, nextIndex, results, worker, inflight, status,
    DB_WEB_PAIRS, requests, calls>>

\* ------------------------------------------------------------------ text

Null == <<"null">>

IsNull(v) == v = Null

Digits == {"0", "1", "2", "3", "4", "5", "6", "7", "8", "9"}

IsDigit(c) == c \in Digits

DigitVal(c) ==
  CASE c = "0" -> 0 [] c = "1" -> 1 [] c = "2" -> 2 [] c = "3" -> 3
    [] c = "4" -> 4 [] c = "5" -> 5 [] c = "6" -> 6 [] c = "7" -> 7
    [] c = "8" -> 8 [] c = "9" -> 9

\* \s of a JavaScript regular expression, for the characters in use
IsSpace(c) == c \in {" ", "\t"}

UpperAlpha ==
  <<"A", "B", "C", "D", "E", "F", "G", "H", "I", "J", "K", "L", "M",
    "N", "O", "P", "Q", "R", "S", "T", "U", "V", "W", "X", "Y", "Z">>

LowerAlpha ==
  <<"a", "b", "c", "d", "e", "f", "g", "h", "i", "j", "k", "l", "m",
    "n", "o", "p", "q", "r", "s", "t", "u", "v", "w", "x", "y", "z">>

UpperLetters == { UpperAlpha[i] : i \in 1..26 }

LowerLetters == { LowerAlpha[i] : i \in 1..26 }

LowerOf(c) ==
  IF c \in UpperLetters THEN LowerAlpha[CHOOSE i \in 1..26 : UpperAlpha[i] = c] ELSE c

UpperOf(c) ==
  IF c \in LowerLetters THEN UpperAlpha[CHOOSE i \in 1..26 : LowerAlpha[i] = c] ELSE c

\* \w of a JavaScript regular expression: [A-Za-z0-9_]
IsWordChar(c) == c \in Digits \cup LowerLetters \cup UpperLetters \cup {"_"}

toLowerCase(s) == [i \in 1..Len(s) |-> LowerOf(s[i])]

toUpperCase(s) == [i \in 1..Len(s) |-> UpperOf(s[i])]

RECURSIVE TrimLeft(_)
TrimLeft(s) ==
  IF s # <<>> /\ IsSpace(Head(s)) THEN TrimLeft(Tail(s)) ELSE s

RECURSIVE TrimRight(_)
TrimRight(s) ==
  IF s # <<>> /\ IsSpace(s[Len(s)]) THEN TrimRight(SubSeq(s, 1, Len(s) - 1)) ELSE s

trim(s) == TrimRight(TrimLeft(s))

\* s.replace(/\s+/g, '')
RemoveSpaces(s) == SelectSeq(s, LAMBDA c : ~IsSpace(c))

\* s.replace(from, to) with a string pattern: the first occurrence only
RECURSIVE ReplaceFirst(_, _, _)
ReplaceFirst(s, from, to) ==
  IF s = <<>> THEN <<>>
  ELSE IF Head(s) = from THEN <<to>> \o Tail(s)
  ELSE <<Head(s)>> \o ReplaceFirst(Tail(s), from, to)

\* s contains pat as a substring
Contains(s, pat) ==
  \E i \in 1..(Len(s) - Len(pat) + 1) : SubSeq(s, i, i + Len(pat) - 1) = pat

\* \b at the gap before position i (1 .. Len(s)+1)
WordBoundary(s, i) ==
  LET before == i > 1 /\ IsWordChar(s[i - 1])
      after  == i <= Len(s) /\ IsWordChar(s[i])
  IN  before # after

\* ---------------------------------------------------------------- numbers

NullNum == [n |-> 0, d |-> 0]

Abs(x) == IF x < 0 THEN -x ELSE x

RECURSIVE Gcd(_, _)
Gcd(a, b) == IF b = 0 THEN a ELSE Gcd(b, a % b)

Rat(n, d) ==
  LET g == Gcd(Abs(n), d)
  IN  IF n = 0 THEN [n |-> 0, d |-> 1] ELSE [n |-> n \div g, d |-> d \div g]

RatTimes(r, k) == Rat(r.n * k, r.d)

RatOver(r, k) == Rat(r.n, r.d * k)

\* Math.round: the nearest integer, halves toward +Infinity
MathRound(r) == (2 * r.n + r.d) \div (2 * r.d)

\* Last index of the run of digits that starts at i
RECURSIVE DigitsEnd(_, _)
DigitsEnd(s, i) ==
  IF i < Len(s) /\ IsDigit(s[i + 1]) THEN DigitsEnd(s, i + 1) ELSE i

\* Last index of the match of -?\d+(?:\.\d+)? starting at i, or 0
NumMatchEnd(s, i) ==
  LET j == IF s[i] = "-" THEN i + 1 ELSE i
  IN  IF j > Len(s) \/ ~IsDigit(s[j]) THEN 0
      ELSE LET e == DigitsEnd(s, j)
           IN  IF e + 2 <= Len(s) /\ s[e + 1] = "." /\ IsDigit(s[e + 2])
               THEN DigitsEnd(s, e + 2)
               ELSE e

\* Start of the leftmost match at or after i, or 0
RECURSIVE NumMatchStart(_, _)
NumMatchStart(s, i) ==
  IF i > Len(s) THEN 0
  ELSE IF NumMatchEnd(s, i) # 0 THEN i
  ELSE NumMatchStart(s, i + 1)

RECURSIVE DigitsValue(_, _)
DigitsValue(s, acc) ==
  IF s = <<>> THEN acc ELSE DigitsValue(Tail(s), 10 * acc + DigitVal(Head(s)))

RECURSIVE Pow10(_)
Pow10(k) == IF k = 0 THEN 1 ELSE 10 * Pow10(k - 1)

\* parseFloat of a matched token
parseFloat(tok) ==
  LET neg   == Head(tok) = "-"
      body  == IF neg THEN Tail(tok) ELSE tok
      ie    == DigitsEnd(body, 1)
      ip    == SubSeq(body, 1, ie)
      fp    == IF ie < Len(body) THEN SubSeq(body, ie + 2, Len(body)) ELSE <<>>
      mag   == DigitsValue(ip \o fp, 0)
  IN  Rat(IF neg THEN -mag ELSE mag, Pow10(Len(fp)))

\* s.match(/-?\d+(?:\.\d+)?/): the first token, or <<>> when there is none
FirstNumToken(s) ==
  LET b == NumMatchStart(s, 1)
  IN  IF b = 0 THEN <<>> ELSE SubSeq(s, b, NumMatchEnd(s, b))

\* s.match(/-?\d+(?:\.\d+)?/g): every token, left to right
RECURSIVE AllNumTokens(_, _)
AllNumTokens(s, i) ==
  LET b == NumMatchStart(s, i)
  IN  IF b = 0 THEN <<>>
      ELSE <<SubSeq(s, b, NumMatchEnd(s, b))>> \o AllNumTokens(s, NumMatchEnd(s, b) + 1)

cleanNumberString(s) ==
  IF IsNull(s) THEN Null ELSE ReplaceFirst(RemoveSpaces(s), ",", ".")

toNumber(val) ==
  IF IsNull(val) \/ val = <<>> THEN NullNum
  ELSE LET s == cleanNumberString(val)
           m == FirstNumToken(s)
       IN  IF m = <<>> THEN NullNum ELSE parseFloat(m)

\* ------------------------------------------------------------- dimensions

NullDims == [L |-> NullNum, B |-> NullNum, H |-> NullNum]

\* /cm\b/ matches at i
CmAt(s, i) == i + 1 <= Len(s) /\ s[i] = "c" /\ s[i + 1] = "m" /\ WordBoundary(s, i + 2)

\* /m\b/ matches at i
MAt(s, i) == i <= Len(s) /\ s[i] = "m" /\ WordBoundary(s, i + 1)

\* s.replace(/cm\b/g, '')
RECURSIVE StripCm(_, _)
StripCm(s, i) ==
  IF i > Len(s) THEN <<>>
  ELSE IF CmAt(s, i) THEN StripCm(s, i + 2)
  ELSE <<s[i]>> \o StripCm(s, i + 1)

\* s.replace(/m\b/g, '')
RECURSIVE StripM(_, _)
StripM(s, i) ==
  IF i > Len(s) THEN <<>>
  ELSE IF MAt(s, i) THEN StripM(s, i + 1)
  ELSE <<s[i]>> \o StripM(s, i + 1)

\* /cm\b/.test(s)
HasCm(s) == \E i \in 1..Len(s) : CmAt(s, i)

\* /(^|\D)m\b/.test(s)
HasMetre(s) == \E i \in 1..Len(s) : MAt(s, i) /\ (i = 1 \/ ~IsDigit(s[i - 1]))

\* one character through .replace(/[\u00d7xX*/]/g, 'x')
DimCanon(c) == IF c \in {"×", "x", "X", "*", "/"} THEN "x" ELSE c

\* the chain of replace calls on the lower-cased, trimmed text
DimNormalise(raw) ==
  LET low == toLowerCase(raw)
      dot == [i \in 1..Len(low) |-> IF low[i] \in {",", ";"} THEN "." ELSE low[i]]
      nsp == RemoveSpaces(dot)
  IN  [i \in 1..Len(nsp) |-> DimCanon(nsp[i])]

\* scale and text after the two unit tests, in the order of the code
DimUnit(s0) ==
  LET afterCm == IF HasCm(s0) THEN [scale |-> 10, s |-> StripCm(s0, 1)]
                 ELSE [scale |-> 1, s |-> s0]
  IN  IF HasMetre(afterCm.s) THEN [scale |-> 1000, s |-> StripM(afterCm.s, 1)]
      ELSE afterCm

DimNums(s) ==
  LET toks == AllNumTokens(s, 1)
  IN  [i \in 1..Len(toks) |-> parseFloat(toks[i])]

Scaled(n, scale) == Rat(MathRound(RatTimes(n, scale)), 1)

\* a mapping that reads two tokens as length and width
AxesOfTwoAsLengthWidth(nums, scale) ==
  [L |-> Scaled(nums[1], scale), B |-> Scaled(nums[2], scale), H |-> NullNum]

\* cylinder: diameter is the width, then the height
AxesOfTwo(nums, scale) ==
  [L |-> NullNum, B |-> Scaled(nums[1], scale), H |-> Scaled(nums[2], scale)]

\* cuboid: length, width, height
AxesOfThree(nums, scale) ==
  [L |-> Scaled(nums[1], scale), B |-> Scaled(nums[2], scale), H |-> Scaled(nums[3], scale)]

parseDimensionsToLBH(txt) ==
  IF IsNull(txt) \/ txt = <<>> THEN NullDims
  ELSE LET raw  == trim(txt)
           u    == DimUnit(DimNormalise(raw))
           nums == DimNums(u.s)
       IN  IF Len(nums) = 2 THEN AxesOfTwo(nums, u.scale)
           ELSE IF Len(nums) = 3 THEN AxesOfThree(nums, u.scale)
           ELSE NullDims

\* ------------------------------------------------------------------ weight

\* /mg\b/.test(s)
HasMg(s) ==
  \E i \in 1..Len(s) : i + 1 <= Len(s) /\ s[i] = "m" /\ s[i + 1] = "g" /\ WordBoundary(s, i + 2)

\* /\bg\b/.test(s)
HasG(s) ==
  \E i \in 1..Len(s) : s[i] = "g" /\ WordBoundary(s, i) /\ WordBoundary(s, i + 1)

\* /\bkg\b/.test(s)
HasKg(s) ==
  \E i \in 1..Len(s) :
    i + 1 <= Len(s) /\ s[i] = "k" /\ s[i + 1] = "g" /\ WordBoundary(s, i) /\ WordBoundary(s, i + 2)

\* /\bt\b/.test(s)
HasT(s) ==
  \E i \in 1..Len(s) : s[i] = "t" /\ WordBoundary(s, i) /\ WordBoundary(s, i + 1)

parseWeight(value) ==
  IF IsNull(value) \/ value = <<>> THEN [value |-> NullNum, unit |-> <<>>]
  ELSE LET s == trim(ReplaceFirst(toLowerCase(value), ",", "."))
           m == FirstNumToken(s)
       IN  [value |-> IF m = <<>> THEN NullNum ELSE parseFloat(m),
            unit  |-> IF HasMg(s) THEN <<"m", "g">>
                      ELSE IF HasG(s) /\ ~HasKg(s) THEN <<"g">>
                      ELSE IF HasKg(s) THEN <<"k", "g">>
                      ELSE IF HasT(s) THEN <<"t">>
                      ELSE <<>>]

\* a variant that leaves tonnes unscaled
weightToKgTonneUnscaled(value, unit) ==
  IF value = NullNum THEN NullNum
  ELSE LET u == toLowerCase(IF IsNull(unit) THEN <<>> ELSE unit)
       IN  IF u = <<"m", "g">> THEN RatOver(value, 1000000)
           ELSE IF u = <<"g">> THEN RatOver(value, 1000)
           ELSE value

weightToKg(value, unit) ==
  IF value = NullNum THEN NullNum
  ELSE LET u == toLowerCase(IF IsNull(unit) THEN <<>> ELSE unit)
       IN  IF u = <<"m", "g">> THEN RatOver(value, 1000000)
           ELSE IF u = <<"g">> THEN RatOver(value, 1000)
           ELSE IF u = <<"k", "g">> \/ u = <<>> THEN value
           ELSE IF u = <<"t">> THEN RatTimes(value, 1000)
           ELSE value

\* Math.abs(a - b) < 1e-9, on exact fractions
Within1e9(a, b) ==
  Abs(a.n * b.d - b.n * a.d) <= (a.d * b.d - 1) \div 1000000000

\* ------------------------------------------------- part number and N code

IsPartSeparator(c) == IsSpace(c) \/ c \in {"-", "/", "_"}

\* the text without its first run of separators
RECURSIVE DropFirstSeparatorRun(_)
DropFirstSeparatorRun(s) ==
  IF s = <<>> THEN <<>>
  ELSE IF IsPartSeparator(Head(s))
    THEN IF Tail(s) # <<>> /\ IsPartSeparator(Head(Tail(s)))
         THEN DropFirstSeparatorRun(Tail(s)) ELSE Tail(s)
  ELSE <<Head(s)>> \o DropFirstSeparatorRun(Tail(s))

\* a variant that drops only the first run of separators
normPartNoFirstRun(s) ==
  IF IsNull(s) \/ s = <<>> THEN <<>> ELSE DropFirstSeparatorRun(toUpperCase(s))

\* a variant that keeps the slash
normPartNoKeepSlash(s) ==
  IF IsNull(s) \/ s = <<>> THEN <<>>
  ELSE SelectSeq(toUpperCase(s), LAMBDA c : ~(IsSpace(c) \/ c \in {"-", "_"}))

normPartNo(s) ==
  IF IsNull(s) \/ s = <<>> THEN <<>>
  ELSE SelectSeq(toUpperCase(s), LAMBDA c : ~IsPartSeparator(c))

normalizeNCode(s) ==
  IF IsNull(s) \/ s = <<>> THEN <<>>
  ELSE toUpperCase(RemoveSpaces(s))

\* ------------------------------------------------------------ comparators

Sentinel ==
  <<"N", "i", "c", "h", "t", " ", "g", "e", "f", "u", "n", "d", "e", "n">>

\* JavaScript truthiness of a text or absent value
Truthy(v) == ~IsNull(v) /\ v # <<>>

\* v || ''
OrEmpty(v) == IF Truthy(v) THEN v ELSE <<>>

\* v || other
OrElse(v, other) == IF Truthy(v) THEN v ELSE other

\* web.X && web.X !== 'Nicht gefunden'
Found(v) == Truthy(v) /\ v # Sentinel

hasValue(v) == ~IsNull(v) /\ v # <<>> /\ trim(v) # <<>>

\* s.replace(/\s+/g, ' ')
RECURSIVE CollapseSpaces(_)
CollapseSpaces(s) ==
  IF s = <<>> THEN <<>>
  ELSE IF IsSpace(Head(s))
    THEN <<" ">> \o CollapseSpaces(TrimLeft(s))
  ELSE <<Head(s)>> \o CollapseSpaces(Tail(s))

\* a variant that compares the trimmed texts as they are
eqTextCaseSensitive(a, b) ==
  IF IsNull(a) \/ IsNull(b) THEN FALSE
  ELSE trim(a) = trim(b)

eqText(a, b) ==
  IF IsNull(a) \/ IsNull(b) THEN FALSE
  ELSE CollapseSpaces(toLowerCase(trim(a))) = CollapseSpaces(toLowerCase(trim(b)))

eqPart(a, b) == normPartNo(a) = normPartNo(b)

eqN(a, b) == normalizeNCode(a) = normalizeNCode(b)

\* first variant: the DB number against the Web number as written
eqWeightFirst(exS, webVal) ==
  LET wv    == parseWeight(webVal).value
      exNum == toNumber(exS)
  IN  IF wv = NullNum \/ exNum = NullNum THEN FALSE ELSE Within1e9(exNum, wv)

\* second variant and header-driven handler: both sides in kilograms
eqWeight(exS, exT, webVal) ==
  LET w      == parseWeight(webVal)
      exNum  == toNumber(exS)
      exUnit == toLowerCase(trim(OrEmpty(exT)))
  IN  IF w.value = NullNum \/ exNum = NullNum THEN FALSE
      ELSE LET a == weightToKg(exNum, exUnit)
               b == weightToKg(w.value, OrElse(w.unit, OrElse(exUnit, <<"k", "g">>)))
           IN  IF a = NullNum \/ b = NullNum THEN FALSE ELSE Within1e9(a, b)

Axis(d, dimType) == IF dimType = "L" THEN d.L ELSE IF dimType = "B" THEN d.B ELSE d.H

eqDimension(exVal, webDimText, dimType) ==
  LET exNum  == toNumber(exVal)
      webVal == Axis(parseDimensionsToLBH(webDimText), dimType)
  IN  IF exNum = NullNum \/ webVal = NullNum THEN FALSE ELSE exNum = webVal

\* ------------------------------------------- inputs of the dimension parser

MaxDimTokens == 4

DimNumFrags == { <<"3", "0">>, <<"2", "0">>, <<"1", "0">>, <<"2", ",", "5">> }

DimSeps == { <<"x">>, <<" ", "X", " ">>, <<"×">> }

DimUnits ==
  { <<>>, <<"m", "m">>, <<" ", "m", "m">>, <<"c", "m">>, <<" ", "C", "M">>,
    <<"m">>, <<" ", "m">> }

RECURSIVE Join(_, _)
Join(toks, sep) ==
  IF toks = <<>> THEN <<>>
  ELSE IF Len(toks) = 1 THEN toks[1]
  ELSE toks[1] \o sep \o Join(Tail(toks), sep)

DimTokSeqs == UNION { [1..k -> DimNumFrags] : k \in 0..MaxDimTokens }

DimTexts ==
  { Join(t, sep) \o u : t \in DimTokSeqs, sep \in DimSeps, u \in DimUnits }
    \cup { Null, <<"a", "b", "c">> }

\* ------------------------------------------------- idle parts of the state

ServerIdle == DB_WEB_PAIRS = <<>> /\ requests = <<>> /\ calls = <<>>

ServerSame == UNCHANGED <<DB_WEB_PAIRS, requests, calls>>

SheetIdle ==
  sheet = <<>> /\ tasks = <<>> /\ prodRows = <<>> /\ resultsMap = <<>> /\ ServerIdle

SheetSame == ServerSame /\ UNCHANGED <<sheet, tasks, prodRows, resultsMap>>

ScrapeIdle ==
  /\ cache = <<>>
  /\ unique = <<>>
  /\ nextIndex = 0
  /\ results = <<>>
  /\ worker = <<>>
  /\ inflight = 0
  /\ status = "none"

ScrapeSame == UNCHANGED <<cache, unique, nextIndex, results, worker, inflight, status>>

RowIdle ==
  SheetIdle /\ ScrapeIdle /\ out = <<>> /\ a2v = <<>> /\ db = <<>> /\ web = <<>> /\ variant = "none" /\ cell = <<>>

RowSame == SheetSame /\ ScrapeSame /\ UNCHANGED <<out, a2v, db, web, variant, cell>>

\* --------------------------------------- specification: parseDimensionsToLBH

InitDim ==
  /\ pc = "ready"
  /\ text \in DimTexts
  /\ dims = NullDims
  /\ code = <<>>
  /\ RowIdle

ParseDimensions ==
  /\ pc = "ready"
  /\ dims' = parseDimensionsToLBH(text)
  /\ pc' = "done"
  /\ UNCHANGED <<text, code>>
  /\ RowSame

NextDim == ParseDimensions

SpecDim == InitDim /\ [][NextDim]_vars

\* the letters that end the text, lower-cased: its unit suffix
RECURSIVE TrailingLetters(_)
TrailingLetters(s) ==
  IF s # <<>> /\ LowerOf(s[Len(s)]) \in LowerLetters
  THEN TrailingLetters(SubSeq(s, 1, Len(s) - 1)) \o <<LowerOf(s[Len(s)])>>
  ELSE <<>>

\* the numeric tokens of the text, before any unit is stripped
TextNums(txt) == DimNums(DimNormalise(trim(txt)))

\* the scale the unit suffix stands for: mm or none 1, cm 10, m 1000
SuffixScale(u) ==
  IF u = <<"c", "m">> THEN 10 ELSE IF u = <<"m">> THEN 1000 ELSE 1

AxesByCount(nums, scale) ==
  IF Len(nums) = 3
    THEN [L |-> Rat(MathRound(RatTimes(nums[1], scale)), 1),
          B |-> Rat(MathRound(RatTimes(nums[2], scale)), 1),
          H |-> Rat(MathRound(RatTimes(nums[3], scale)), 1)]
  ELSE IF Len(nums) = 2
    THEN [L |-> NullNum,
          B |-> Rat(MathRound(RatTimes(nums[1], scale)), 1),
          H |-> Rat(MathRound(RatTimes(nums[2], scale)), 1)]
  ELSE [L |-> NullNum, B |-> NullNum, H |-> NullNum]

\* C2: every numeric token is scaled by the factor of the text's unit suffix:
\* 1 for mm or no unit, 10 for cm, 1000 for m.
C2_ScaleByUnitSuffix ==
  (pc = "done" /\ ~IsNull(text)
     /\ TrailingLetters(text) \in { <<>>, <<"m", "m">>, <<"c", "m">>, <<"m">> })
    => dims = AxesByCount(TextNums(text), SuffixScale(TrailingLetters(text)))

\* C3: the axes follow from the token count alone: three tokens are L, B, H in
\* order, two tokens are B, H with L null, any other count is all null.
C3_AxesByTokenCount ==
  (pc = "done" /\ ~IsNull(text))
    => dims = AxesByCount(TextNums(text), DimUnit(DimNormalise(trim(text))).scale)

C3_Witness ==
  /\ pc = "done"
  /\ ~IsNull(text)
  /\ Len(TextNums(text)) = 2
  /\ dims.L = NullNum
  /\ dims.B = Rat(25, 1)
  /\ dims.H = Rat(200, 1)

\* ---------------------------------------------------------- classification

FixedCode == <<"O", "H", "N", "E", "/", "N", "/", "N", "/", "N", "/", "N">>

\* the three tests without the relevance marker
mapWithoutRelevance(txt) ==
  IF IsNull(txt) \/ txt = <<>> THEN <<>>
  ELSE LET s == toLowerCase(txt)
       IN  IF Contains(s, <<"n", "i", "c", "h", "t">>)
                /\ (Contains(s, <<"s", "c", "h", "w", "e", "i">>)
                      \/ Contains(s, <<"g", "u", "s", "s">>)
                      \/ Contains(s, <<"k", "l", "e", "b", "e">>)
                      \/ Contains(s, <<"s", "c", "h", "m", "i", "e", "d", "e">>))
           THEN FixedCode
           ELSE <<>>

mapMaterialClassificationToExcel(txt) ==
  IF IsNull(txt) \/ txt = <<>> THEN <<>>
  ELSE LET s           == toLowerCase(txt)
           hasNicht    == Contains(s, <<"n", "i", "c", "h", "t">>)
           hasSchweiss == \/ Contains(s, <<"s", "c", "h", "w", "e", "i">>)
                          \/ Contains(s, <<"s", "c", "h", "w", "e", "i", "ß">>)
                          \/ Contains(s, <<"s", "c", "h", "w", "e", "i", "s", "s">>)
           hasGuss     == Contains(s, <<"g", "u", "s", "s">>)
           hasKlebe    == Contains(s, <<"k", "l", "e", "b", "e">>)
           hasSchmiede == Contains(s, <<"s", "c", "h", "m", "i", "e", "d", "e">>)
           hasRelevant == Contains(s, <<"r", "e", "l", "e", "v">>)
       IN  IF hasNicht /\ (hasSchweiss \/ hasGuss \/ hasKlebe \/ hasSchmiede) /\ hasRelevant
           THEN FixedCode
           ELSE <<>>

\* ---------------------------------- inputs of the classification mapping

MaxClassFrags == 4

ClassFrags ==
  { <<"N", "i", "c", "h", "t">>,
    <<"S", "c", "h", "w", "e", "i", "ß">>,
    <<"G", "u", "s", "s">>,
    <<"k", "l", "e", "b", "e">>,
    <<"s", "c", "h", "m", "i", "e", "d", "e">>,
    <<"R", "E", "L", "E", "V", "A", "N", "T">>,
    <<"k", "e", "i", "n">>,
    <<" ">> }

RECURSIVE Concat(_)
Concat(frags) == IF frags = <<>> THEN <<>> ELSE Head(frags) \o Concat(Tail(frags))

ClassTexts ==
  { Concat(f) : f \in UNION { [1..k -> ClassFrags] : k \in 0..MaxClassFrags } }
    \cup { Null }

\* ------------------------- specification: mapMaterialClassificationToExcel

InitClass ==
  /\ pc = "ready"
  /\ text \in ClassTexts
  /\ dims = NullDims
  /\ code = <<>>
  /\ RowIdle

MapClassification ==
  /\ pc = "ready"
  /\ code' = mapMaterialClassificationToExcel(text)
  /\ pc' = "done"
  /\ UNCHANGED <<text, dims>>
  /\ RowSame

NextClass == MapClassification

SpecClass == InitClass /\ [][NextClass]_vars

NegationMarkers == { <<"n", "i", "c", "h", "t">> }

ProcessMarkers ==
  { <<"s", "c", "h", "w", "e", "i">>, <<"g", "u", "s", "s">>,
    <<"k", "l", "e", "b", "e">>, <<"s", "c", "h", "m", "i", "e", "d", "e">> }

RelevanceMarkers == { <<"r", "e", "l", "e", "v">> }

\* the markers of class M that occur in the lower-cased description
MarkersIn(txt, M) ==
  IF IsNull(txt) THEN {} ELSE { m \in M : Contains(toLowerCase(txt), m) }

\* C10: the fixed code is returned iff a negation marker, at least one process
\* marker and a relevance marker all occur; otherwise, and for an empty or
\* null description, the result is the empty string.
C10_CodeIffAllThreeMarkers ==
  pc = "done" =>
    /\ code \in { FixedCode, <<>> }
    /\ code = FixedCode <=>
         /\ MarkersIn(text, NegationMarkers) # {}
         /\ MarkersIn(text, ProcessMarkers) # {}
         /\ MarkersIn(text, RelevanceMarkers) # {}
    /\ (IsNull(text) \/ text = <<>>) => code = <<>>

C10_Witness ==
  /\ pc = "done"
  /\ code = FixedCode
  /\ Cardinality(MarkersIn(text, ProcessMarkers)) = 2

\* ------------------------------------------- reconciliation of one data row

Fields == {"C", "E", "N", "P", "S", "U", "V", "W"}

DimTypeOf(f) == IF f = "U" THEN "L" ELSE IF f = "V" THEN "B" ELSE "H"

Painted(written, color) == [written |-> written, color |-> color]

GreenOrRed(isEqual) == IF isEqual THEN "green" ELSE "red"

\* the classification description mapped and normalised
WebCode(mk) == normalizeNCode(mapMaterialClassificationToExcel(mk))

\* first variant, lines 359-367: the colour from hasDb, hasWeb and isEqual
ColourFirst(hasDb, hasWeb, isEqual) ==
  IF hasWeb THEN Painted(TRUE, IF hasDb THEN GreenOrRed(isEqual) ELSE "orange")
  ELSE Painted(FALSE, IF hasDb THEN "orange" ELSE "none")

\* first variant: one pair of the row
PairFirst(f, dbValue, bag, id) ==
  LET hasDb == hasValue(dbValue)
  IN  CASE f = "C" ->
             ColourFirst(hasDb, Found(bag.Produkttitel),
                         Found(bag.Produkttitel) /\ eqText(OrEmpty(dbValue), bag.Produkttitel))
        [] f = "E" ->
             LET webValue == IF Found(bag.WeitereArtikelnummer)
                             THEN bag.WeitereArtikelnummer ELSE id
             IN  ColourFirst(hasDb, TRUE, eqPart(OrElse(dbValue, id), webValue))
        [] f = "N" ->
             LET hasWeb == Found(bag.Materialklassifizierung)
                             /\ WebCode(bag.Materialklassifizierung) # <<>>
             IN  ColourFirst(hasDb, hasWeb,
                             hasWeb /\ eqN(OrEmpty(dbValue), WebCode(bag.Materialklassifizierung)))
        [] f = "P" ->
             ColourFirst(hasDb, Found(bag.Werkstoff),
                         Found(bag.Werkstoff) /\ eqText(OrEmpty(dbValue), bag.Werkstoff))
        [] f = "S" ->
             LET hasWeb == Found(bag.Gewicht) /\ parseWeight(bag.Gewicht).value # NullNum
             IN  ColourFirst(hasDb, hasWeb, hasWeb /\ eqWeightFirst(dbValue, bag.Gewicht))
        [] OTHER ->
             LET hasWeb == Found(bag.Abmessung)
                             /\ Axis(parseDimensionsToLBH(bag.Abmessung), DimTypeOf(f)) # NullNum
             IN  ColourFirst(hasDb, hasWeb,
                             hasWeb /\ eqDimension(dbValue, bag.Abmessung, DimTypeOf(f)))

\* second variant, lines 570-685: one Web column of the row
PairSecond(f, dbValue, bag, id) ==
  CASE f = "C" ->
         IF Found(bag.Produkttitel)
         THEN Painted(TRUE, GreenOrRed(eqText(OrEmpty(dbValue), bag.Produkttitel)))
         ELSE Painted(FALSE, "orange")
    [] f = "E" ->
         IF Found(bag.WeitereArtikelnummer)
         THEN Painted(TRUE, GreenOrRed(eqPart(OrElse(dbValue, id), bag.WeitereArtikelnummer)))
         ELSE Painted(FALSE, "orange")
    [] f = "N" ->
         IF Found(bag.Materialklassifizierung) /\ WebCode(bag.Materialklassifizierung) # <<>>
         THEN Painted(TRUE, GreenOrRed(eqN(OrEmpty(dbValue), WebCode(bag.Materialklassifizierung))))
         ELSE Painted(FALSE, "orange")
    [] f = "P" ->
         IF Found(bag.Werkstoff)
         THEN Painted(TRUE, GreenOrRed(eqText(OrEmpty(dbValue), bag.Werkstoff)))
         ELSE Painted(FALSE, "orange")
    [] f = "S" ->
         IF Found(bag.Gewicht) /\ parseWeight(bag.Gewicht).value # NullNum
         THEN Painted(TRUE, GreenOrRed(eqWeight(dbValue, Null, bag.Gewicht)))
         ELSE Painted(FALSE, "orange")
    [] OTHER ->
         LET d == IF Found(bag.Abmessung)
                  THEN Axis(parseDimensionsToLBH(bag.Abmessung), DimTypeOf(f)) ELSE NullNum
         IN  IF d = NullNum THEN Painted(FALSE, "orange")
             ELSE IF toNumber(dbValue) # NullNum
               THEN Painted(TRUE, GreenOrRed(toNumber(dbValue) = d))
             ELSE Painted(TRUE, "green")

\* header-driven handler, lines 175-252: one Web column of the row
PairHeader(f, dbValue, dbUnit, bag, id) ==
  CASE f = "C" ->
         IF Found(bag.Produkttitel)
         THEN Painted(TRUE, GreenOrRed(eqText(OrEmpty(dbValue), bag.Produkttitel)))
         ELSE Painted(FALSE, "orange")
    [] f = "E" ->
         LET webVal == OrElse(IF Found(bag.WeitereArtikelnummer)
                              THEN bag.WeitereArtikelnummer ELSE <<>>, id)
         IN  IF Truthy(webVal)
             THEN Painted(TRUE, GreenOrRed(eqPart(OrElse(dbValue, id), webVal)))
             ELSE Painted(FALSE, "orange")
    [] f = "N" ->
         LET c == WebCode(OrEmpty(bag.Materialklassifizierung))
         IN  IF c # <<>> THEN Painted(TRUE, GreenOrRed(eqN(OrEmpty(dbValue), c)))
             ELSE Painted(FALSE, "orange")
    [] f = "P" ->
         IF Found(bag.Werkstoff)
         THEN Painted(TRUE, GreenOrRed(eqText(OrEmpty(dbValue), bag.Werkstoff)))
         ELSE Painted(FALSE, "orange")
    [] f = "S" ->
         IF Found(bag.Gewicht)
         THEN Painted(TRUE, GreenOrRed(eqWeight(dbValue, dbUnit, bag.Gewicht)))
         ELSE Painted(FALSE, "orange")
    [] OTHER ->
         LET d == IF Found(bag.Abmessung)
                  THEN Axis(parseDimensionsToLBH(bag.Abmessung), DimTypeOf(f)) ELSE NullNum
         IN  IF toNumber(dbValue) # NullNum /\ d # NullNum
               THEN Painted(TRUE, GreenOrRed(toNumber(dbValue) = d))
             ELSE IF d = NullNum THEN Painted(FALSE, "orange")
             ELSE Painted(TRUE, "none")

\* the DB unit cell, filled by the header-driven handler when it is empty
UnitCellHeader(dbUnit, bag) ==
  IF Found(bag.Gewicht) /\ parseWeight(bag.Gewicht).unit # <<>> /\ ~Truthy(dbUnit)
  THEN Painted(TRUE, "none")
  ELSE Painted(FALSE, "none")

\* ---------------------------------------------------- inputs: one data row

MaxDbTextLen == 3

MaxWebTextLen == 4

MaxDbPartFrags == 3

MaxWebPartFrags == 2

DbCols == Fields \cup {"T"}

TextAlphabet == {"a", "A", " "}

TextsUpTo(n) == UNION { [1..k -> TextAlphabet] : k \in 0..n }

PartFrags == { <<"a", "B">>, <<"1">>, <<"-">>, <<"/">> }

PartsUpTo(n) == { Concat(f) : f \in UNION { [1..k -> PartFrags] : k \in 0..n } }

Identifiers == { <<"A", "2", "V", "1">> }

DbTexts == { Null } \cup TextsUpTo(MaxDbTextLen)

WebTexts == { Null, Sentinel } \cup TextsUpTo(MaxWebTextLen)

DbParts ==
  { Null, <<" ">>, <<"a", "b", "_", "1">> } \cup PartsUpTo(MaxDbPartFrags)

WebParts ==
  { Null, Sentinel, <<"_">>, <<"A", "B", " ", "1">>, <<"A", "2", "V", "1">>,
    <<"a", "2", "v", "-", "1">> } \cup PartsUpTo(MaxWebPartFrags)

DbCodes ==
  { Null, <<>>, FixedCode, <<"x">>,
    <<"o", "h", "n", "e", " ", "/", "n", "/", "n", "/", "N", "/", "N">> }

WebClassifications ==
  { Null, Sentinel, <<>>,
    <<"N", "i", "c", "h", "t", " ", "s", "c", "h", "w", "e", "i", "ß",
      "r", "e", "l", "e", "v", "a", "n", "t">>,
    <<"g", "u", "s", "s", "r", "e", "l", "e", "v", "a", "n", "t">> }

DbWeights ==
  { Null, <<>>, <<" ">>, <<"1", ".", "0">>, <<"0", ".", "9">>, <<"0", ",", "9">>,
    <<"9", "0", "0">>, <<"k", ".", "A", ".">> }

DbUnits == { Null, <<"g">>, <<"K", "G">> }

WebWeights ==
  { Null, Sentinel, <<>>,
    <<"9", "0", "0", " ", "g">>, <<"9", "0", "0", "g">>, <<"9", "0", "0">>,
    <<"0", ",", "9", " ", "k", "g">>, <<"0", ".", "9">>, <<"1">>,
    <<"0", ",", "9", " ", "K", "G">>, <<"9", "0", "0", " ", "m", "g">>,
    <<"0", ",", "9", " ", "t">>, <<"k", "g">> }

DbLengths == { Null, <<"3", "0">>, <<"2", "0">>, <<"1", "0">>, <<"x">> }

WebDimensions ==
  { Null, Sentinel, <<>>,
    <<"3", "0", "x", "2", "0", "x", "1", "0">>,
    <<"2", "0", "x", "3", "0">>,
    <<"3", "0", " ", "x", " ", "2", "0", " ", "x", " ", "1", "0", " ", "m", "m">>,
    <<"3", "x", "2", "x", "1", " ", "c", "m">>,
    <<"1", "0">>,
    <<"a", "b", "c">> }

EmptyDb == [c \in DbCols |-> Null]

SentinelBag ==
  [Produkttitel |-> Sentinel, WeitereArtikelnummer |-> Sentinel,
   Materialklassifizierung |-> Sentinel, Werkstoff |-> Sentinel,
   Gewicht |-> Sentinel, Abmessung |-> Sentinel]

\* rows in which one field group carries data and the rest of the row is empty
RowLoaded ==
  \/ \E d \in DbTexts, w \in WebTexts :
       /\ db = [EmptyDb EXCEPT !["C"] = d]
       /\ web = [SentinelBag EXCEPT !.Produkttitel = w]
  \/ \E d \in DbTexts, w \in WebTexts :
       /\ db = [EmptyDb EXCEPT !["P"] = d]
       /\ web = [SentinelBag EXCEPT !.Werkstoff = w]
  \/ \E d \in DbParts, w \in WebParts :
       /\ db = [EmptyDb EXCEPT !["E"] = d]
       /\ web = [SentinelBag EXCEPT !.WeitereArtikelnummer = w]
  \/ \E d \in DbCodes, w \in WebClassifications :
       /\ db = [EmptyDb EXCEPT !["N"] = d]
       /\ web = [SentinelBag EXCEPT !.Materialklassifizierung = w]
  \/ \E d \in DbWeights, u \in DbUnits, w \in WebWeights :
       /\ db = [EmptyDb EXCEPT !["S"] = d, !["T"] = u]
       /\ web = [SentinelBag EXCEPT !.Gewicht = w]
  \/ \E l \in DbLengths, b \in DbLengths, h \in DbLengths, w \in WebDimensions :
       /\ db = [EmptyDb EXCEPT !["U"] = l, !["V"] = b, !["W"] = h]
       /\ web = [SentinelBag EXCEPT !.Abmessung = w]

\* ------------------------------------- specification: one row, each handler

InitRow ==
  /\ pc = "loaded"
  /\ text = <<>>
  /\ dims = NullDims
  /\ code = <<>>
  /\ out = <<>>
  /\ SheetIdle
  /\ ScrapeIdle
  /\ a2v \in Identifiers
  /\ RowLoaded
  /\ variant = "none"
  /\ cell = [c \in DbCols |-> Painted(FALSE, "none")]

ProcessRowFirst ==
  /\ pc = "loaded"
  /\ cell' = [c \in DbCols |->
                IF c = "T" THEN Painted(FALSE, "none") ELSE PairFirst(c, db[c], web, a2v)]
  /\ variant' = "first"
  /\ pc' = "processed"
  /\ UNCHANGED <<text, dims, code, out, a2v, db, web>>
  /\ SheetSame
  /\ ScrapeSame

ProcessRowSecond ==
  /\ pc = "loaded"
  /\ cell' = [c \in DbCols |->
                IF c = "T" THEN Painted(FALSE, "none") ELSE PairSecond(c, db[c], web, a2v)]
  /\ variant' = "second"
  /\ pc' = "processed"
  /\ UNCHANGED <<text, dims, code, out, a2v, db, web>>
  /\ SheetSame
  /\ ScrapeSame

ProcessRowHeader ==
  /\ pc = "loaded"
  /\ cell' = [c \in DbCols |->
                IF c = "T" THEN UnitCellHeader(db["T"], web)
                ELSE PairHeader(c, db[c], db["T"], web, a2v)]
  /\ variant' = "header"
  /\ pc' = "processed"
  /\ UNCHANGED <<text, dims, code, out, a2v, db, web>>
  /\ SheetSame
  /\ ScrapeSame

NextRow == ProcessRowFirst \/ ProcessRowSecond \/ ProcessRowHeader

SpecRow == InitRow /\ [][NextRow]_vars

\* ------------------------------------------------- properties of the rows

Processed == pc = "processed"

TextFields == {"C", "P"}

NumberFields == {"S", "U", "V", "W"}

DimFields == {"U", "V", "W"}

\* the Web bag's entry that a tracked field is compared with
WebOf(f) ==
  CASE f = "C" -> web.Produkttitel
    [] f = "E" -> web.WeitereArtikelnummer
    [] f = "N" -> web.Materialklassifizierung
    [] f = "P" -> web.Werkstoff
    [] f = "S" -> web.Gewicht
    [] OTHER   -> web.Abmessung

\* the Web value of the field is there and normalises to a comparable value
WebComparable(f) ==
  /\ Found(WebOf(f))
  /\ f = "N" => WebCode(WebOf(f)) # <<>>
  /\ f = "S" => parseWeight(WebOf(f)).value # NullNum
  /\ f \in DimFields => Axis(parseDimensionsToLBH(WebOf(f)), DimTypeOf(f)) # NullNum

\* the DB cell of the field has a value the comparator can use
DbUsable(f) ==
  IF f \in NumberFields THEN toNumber(db[f]) # NullNum ELSE hasValue(db[f])

\* C1: with both weights there, the field is Match iff the DB weight in kg and
\* the Web weight converted to kg by its own unit differ by less than 1e-9,
\* and Mismatch otherwise.
C1_WeightComparedInKilograms ==
  (Processed /\ variant \in {"first", "second"} /\ WebComparable("S") /\ DbUsable("S"))
    => LET w == parseWeight(web.Gewicht)
       IN  cell["S"].color =
             IF Within1e9(weightToKg(toNumber(db["S"]), <<>>), weightToKg(w.value, w.unit))
             THEN "green" ELSE "red"

\* C4: a field whose Web value is the sentinel or absent is Missing (orange),
\* whatever the DB value is.
C4_WebNotFoundIsMissing ==
  (Processed /\ variant = "first")
    => \A f \in Fields : ~Found(WebOf(f)) => cell[f].color = "orange"

\* C5: after a row is processed each of its eight Web cells carries exactly
\* one of the colours green, red, orange.
C5_OneOutcomePerField ==
  Processed => \A f \in Fields : cell[f].color \in {"green", "red", "orange"}

\* C6: with a comparable Web value and no usable DB value the outcome is
\* Missing, except for the classification code, where it is Mismatch; it is
\* never Match.
C6_DbAbsentIsMissing ==
  (Processed /\ variant \in {"first", "second"})
    => \A f \in Fields :
         (WebComparable(f) /\ ~DbUsable(f))
           => cell[f].color = IF f = "N" THEN "red" ELSE "orange"

\* the Web side of the part-number comparison: the further article number, or
\* the identifier when that is absent or the sentinel
WebPartNo == IF Found(web.WeitereArtikelnummer) THEN web.WeitereArtikelnummer ELSE a2v

\* letters upper-cased, blanks, hyphens, underscores and slashes dropped
RECURSIVE CanonPart(_)
CanonPart(s) ==
  IF IsNull(s) \/ s = <<>> THEN <<>>
  ELSE IF Head(s) \in {" ", "\t", "-", "_", "/"} THEN CanonPart(Tail(s))
  ELSE <<UpperOf(Head(s))>> \o CanonPart(Tail(s))

\* C7 as stated: the part number is Match iff the canonical strings are equal.
C7_MatchIffCanonicalEqual ==
  (Processed /\ variant = "first")
    => (cell["E"].color = "green" <=> CanonPart(db["E"]) = CanonPart(WebPartNo))

\* C7, amended: the part number is Match iff the DB cell has a value and the
\* canonical strings of the DB value and of the Web value (the further article
\* number, or the identifier as fallback) are equal; with a DB value and
\* different canonical strings it is Mismatch, without a DB value Missing.
C7_MatchIffDbValueAndCanonicalEqual ==
  (Processed /\ variant = "first")
    => cell["E"].color =
         IF ~hasValue(db["E"]) THEN "orange"
         ELSE IF CanonPart(db["E"]) = CanonPart(WebPartNo) THEN "green"
         ELSE "red"

C7_Witness ==
  /\ Processed
  /\ variant = "first"
  /\ db["E"] = <<"a", "B", "/", "1">>
  /\ web.WeitereArtikelnummer = <<"A", "B", " ", "1">>
  /\ cell["E"].color = "green"

\* trimmed, lower-cased, every run of blanks one blank
CanonText(s) == trim(CollapseSpaces(toLowerCase(s)))

C9_DimensionMatchIffBothEqual ==
  (Processed /\ variant \in {"first", "second"})
    => \A f \in DimFields :
         LET d   == toNumber(db[f])
             wax == IF Found(web.Abmessung)
                    THEN Axis(parseDimensionsToLBH(web.Abmessung), DimTypeOf(f))
                    ELSE NullNum
         IN  cell[f].color = "green" <=> (d # NullNum /\ wax # NullNum /\ d = wax)

\* the code string without whitespace, upper-cased
CanonCode(s) == IF IsNull(s) THEN <<>> ELSE toUpperCase(RemoveSpaces(s))

\* C11: a Web classification description that is there but maps to the empty
\* string gives Missing (orange), never Mismatch; one that maps to the code
\* gives Match iff the canonical DB code equals the canonical mapped code.
C11_ClassificationOutcome ==
  (Processed /\ variant \in {"first", "second"} /\ Found(web.Materialklassifizierung))
    => LET mapped == mapMaterialClassificationToExcel(web.Materialklassifizierung)
       IN  IF mapped = <<>>
           THEN cell["N"].color = "orange"
           ELSE cell["N"].color = "green" <=> CanonCode(db["N"]) = CanonCode(mapped)

\* --------------------------------------------- specification: weightToKg

KgValues ==
  { NullNum, Rat(0, 1), Rat(1, 1), Rat(500, 1), Rat(1500, 1), Rat(9, 10),
    Rat(162, 1000), Rat(25, 10), Rat(-5, 1) }

KgUnits ==
  { Null, <<>>, <<"m", "g">>, <<"g">>, <<"k", "g">>, <<"t">>, <<"K", "G">>,
    <<"G">>, <<"T">>, <<"l", "b">>, <<"m">>, <<"k", "g", " ">> }

InitKg ==
  /\ pc = "ready"
  /\ text \in [value : KgValues, unit : KgUnits]
  /\ dims = NullDims
  /\ code = <<>>
  /\ RowIdle

ConvertWeight ==
  /\ pc = "ready"
  /\ out' = weightToKg(text.value, text.unit)
  /\ pc' = "done"
  /\ UNCHANGED <<text, dims, code, a2v, db, web, variant, cell>>
  /\ SheetSame
  /\ ScrapeSame

NextKg == ConvertWeight

SpecKg == InitKg /\ [][NextKg]_vars

\* the unit as the conversion reads it: absent as empty, letters lower-cased
UnitRead(unit) == IF IsNull(unit) THEN <<>> ELSE toLowerCase(unit)

\* the fixed factor of a unit, as numerator and denominator
KgFactor(u) ==
  CASE u = <<"m", "g">> -> <<1, 1000000>>
    [] u = <<"g">>      -> <<1, 1000>>
    [] u = <<"t">>      -> <<1000, 1>>
    [] OTHER            -> <<1, 1>>

\* C12: weightToKg gives null for a null value, and otherwise the value times
\* the fixed factor of its unit: 1/1e6 for mg, 1/1000 for g, 1 for kg or the
\* empty unit, 1000 for t, and 1 for any unrecognised unit.
C12_WeightScaledByUnitFactor ==
  pc = "done"
    => IF text.value = NullNum THEN out = NullNum
       ELSE LET k == KgFactor(UnitRead(text.unit))
            IN  out = Rat(text.value.n * k[1], text.value.d * k[2])

C12_Witness ==
  /\ pc = "done"
  /\ text = [value |-> Rat(1, 1), unit |-> <<"t">>]
  /\ out = Rat(1000, 1)

\* --------------------------------------------- specification: parseWeight

MaxWeightFrags == 4

WeightFrags ==
  { <<"5">>, <<"0", ",", "5">>, <<" ">>, <<",">>, <<"m", "g">>, <<"g">>,
    <<"k", "g">>, <<"t">>, <<"G">> }

WeightTexts ==
  { Concat(f) : f \in UNION { [1..k -> WeightFrags] : k \in 0..MaxWeightFrags } }
    \cup { Null }

InitWeight ==
  /\ pc = "ready"
  /\ text \in WeightTexts
  /\ dims = NullDims
  /\ code = <<>>
  /\ RowIdle

ParseWeight ==
  /\ pc = "ready"
  /\ out' = parseWeight(text)
  /\ pc' = "done"
  /\ UNCHANGED <<text, dims, code, a2v, db, web, variant, cell>>
  /\ SheetSame
  /\ ScrapeSame

NextWeight == ParseWeight

SpecWeight == InitWeight /\ [][NextWeight]_vars

\* the raw weight text lower-cased, an absent one as the empty text
WeightLower == IF IsNull(text) THEN <<>> ELSE toLowerCase(text)

\* the unit by the stated priority: mg token; g token with no "kg" anywhere;
\* kg token; t token; none
UnitByPriority(s) ==
  IF HasMg(s) THEN <<"m", "g">>
  ELSE IF HasG(s) /\ ~Contains(s, <<"k", "g">>) THEN <<"g">>
  ELSE IF HasKg(s) THEN <<"k", "g">>
  ELSE IF HasT(s) THEN <<"t">>
  ELSE <<>>

\* C13: parseWeight chooses the unit in the fixed priority order mg, g (only
\* when the input nowhere contains "kg"), kg, t, none; the unit is one of the
\* five, and g is never returned for an input that contains "kg".
C13_UnitByPriority ==
  pc = "done"
    => /\ out.unit = UnitByPriority(WeightLower)
       /\ out.unit \in { <<>>, <<"m", "g">>, <<"g">>, <<"k", "g">>, <<"t">> }
       /\ Contains(WeightLower, <<"k", "g">>) => out.unit # <<"g">>

HasDigit(s) == \E i \in 1..Len(s) : IsDigit(s[i])

\* every comma read as a decimal point
CommaAsPoint(s) == [i \in 1..Len(s) |-> IF s[i] = "," THEN "." ELSE s[i]]

\* C14: the value of parseWeight, and weightToKg of it, is null iff the text
\* has no digit, and otherwise is the first decimal token of the text with
\* the comma read as decimal point.
C14_ValueNullIffNoDigit ==
  pc = "done"
    => /\ out.value = NullNum <=> ~HasDigit(text)
       /\ weightToKg(out.value, out.unit) = NullNum <=> ~HasDigit(text)
       /\ HasDigit(text) => out.value = parseFloat(FirstNumToken(CommaAsPoint(text)))

\* ---------------------------------------------- specification: normPartNo

MaxPartFrags == 4

PartNoFrags == PartFrags \cup { <<"_">>, <<" ">> }

PartTexts ==
  { Concat(f) : f \in UNION { [1..k -> PartNoFrags] : k \in 0..MaxPartFrags } }
    \cup { Null }

InitPart ==
  /\ pc = "ready"
  /\ text \in PartTexts
  /\ dims = NullDims
  /\ code = <<>>
  /\ RowIdle

\* normPartNo(x)
NormalisePart ==
  /\ pc = "ready"
  /\ out' = <<normPartNo(text)>>
  /\ pc' = "once"
  /\ UNCHANGED <<text, dims, code, a2v, db, web, variant, cell>>
  /\ SheetSame
  /\ ScrapeSame

\* normPartNo(normPartNo(x))
NormaliseAgain ==
  /\ pc = "once"
  /\ out' = Append(out, normPartNo(out[1]))
  /\ pc' = "twice"
  /\ UNCHANGED <<text, dims, code, a2v, db, web, variant, cell>>
  /\ SheetSame
  /\ ScrapeSame

NextPart == NormalisePart \/ NormaliseAgain

SpecPart == InitPart /\ [][NextPart]_vars

\* C15: normPartNo is idempotent: normalising the normalised part number
\* gives the normalised part number again.
C15_NormPartNoIdempotent ==
  pc = "twice" => out[2] = out[1]

C15_Witness ==
  /\ pc = "twice"
  /\ text = <<"a", "B", "-", "1", "/">>
  /\ out = << <<"A", "B", "1">>, <<"A", "B", "1">> >>

\* ------------------------------------------- further properties of the rows

\* the Web value of a number field is there but does not normalise
WebUnnormalisable(f) ==
  /\ Found(WebOf(f))
  /\ IF f = "S" THEN parseWeight(WebOf(f)).value = NullNum
     ELSE Axis(parseDimensionsToLBH(WebOf(f)), DimTypeOf(f)) = NullNum

\* C16: a Web weight or dimension that is there but cannot be normalised
\* makes the field Missing (orange), never Mismatch and never Match.
C16_UnnormalisableWebIsMissing ==
  (Processed /\ variant \in {"first", "header"})
    => \A f \in NumberFields : WebUnnormalisable(f) => cell[f].color = "orange"

\* ----------------------------------- the normalisers called with any value

\* a JavaScript value: a string s, a number v (NullNum for NaN), null or
\* undefined
JsVal(k, s, v) == [k |-> k, s |-> s, v |-> v]

JsString(s) == JsVal("string", s, NullNum)

JsNumber(v) == JsVal("number", <<>>, v)

JsNull == JsVal("null", <<>>, NullNum)

JsUndefined == JsVal("undefined", <<>>, NullNum)

Thrown == JsVal("throw", <<>>, NullNum)

\* x == null
IsNullish(x) == x.k \in {"null", "undefined"}

\* the truthiness of a value
JsTruthy(x) ==
  \/ x.k = "string" /\ x.s # <<>>
  \/ x.k = "number" /\ x.v # NullNum /\ x.v.n # 0

JsNumbers == { Rat(0, 1), Rat(5, 1), Rat(12, 1), Rat(-3, 1), Rat(5, 2) }

\* Number.prototype.toString on the numbers of JsNumbers
NumberText(v) ==
  CASE v = Rat(0, 1)  -> <<"0">>
    [] v = Rat(5, 1)  -> <<"5">>
    [] v = Rat(12, 1) -> <<"1", "2">>
    [] v = Rat(-3, 1) -> <<"-", "3">>
    [] v = Rat(5, 2)  -> <<"2", ".", "5">>

\* String(x)
StringOf(x) ==
  CASE x.k = "string"    -> x.s
    [] x.k = "number"    -> NumberText(x.v)
    [] x.k = "null"      -> <<"n", "u", "l", "l">>
    [] x.k = "undefined" -> <<"u", "n", "d", "e", "f", "i", "n", "e", "d">>

\* the numeric coercion of a string operand of / and *: blank is 0, a plain
\* decimal numeral its value, anything else NaN
NumberOf(s) ==
  LET t == trim(s)
  IN  IF t = <<>> THEN Rat(0, 1)
      ELSE IF FirstNumToken(t) = t THEN parseFloat(t)
      ELSE NullNum

\* a number-or-null result as a value
NumberOrNull(r) == IF r = NullNum THEN JsNull ELSE JsNumber(r)

toNumberOf(x) ==
  IF IsNullish(x) THEN JsNull ELSE NumberOrNull(toNumber(StringOf(x)))

parseWeightOf(x) ==
  LET w == IF ~JsTruthy(x) /\ ~(x.k = "number" /\ x.v = Rat(0, 1))
           THEN [value |-> NullNum, unit |-> <<>>]
           ELSE parseWeight(StringOf(x))
  IN  [k |-> "object", value |-> NumberOrNull(w.value), unit |-> JsString(w.unit)]

weightToKgOf(value, unit) ==
  IF IsNullish(value) THEN JsNull
  ELSE IF JsTruthy(unit) /\ unit.k # "string" THEN Thrown
  ELSE LET u == IF JsTruthy(unit) THEN toLowerCase(unit.s) ELSE <<>>
           n == IF value.k = "number" THEN value.v ELSE NumberOf(value.s)
       IN  IF u \in { <<"m", "g">>, <<"g">>, <<"t">> }
           THEN JsNumber(IF n = NullNum THEN NullNum ELSE weightToKg(n, u))
           ELSE value

parseDimensionsToLBHOf(x) ==
  LET d == IF JsTruthy(x) THEN parseDimensionsToLBH(StringOf(x)) ELSE NullDims
  IN  [k |-> "object", L |-> NumberOrNull(d.L), B |-> NumberOrNull(d.B),
       H |-> NumberOrNull(d.H)]

normPartNoOf(x) ==
  JsString(IF JsTruthy(x) THEN normPartNo(StringOf(x)) ELSE <<>>)

normalizeNCodeOf(x) ==
  JsString(IF JsTruthy(x) THEN normalizeNCode(StringOf(x)) ELSE <<>>)

mapMaterialClassificationToExcelOf(x) ==
  JsString(IF JsTruthy(x) THEN mapMaterialClassificationToExcel(StringOf(x)) ELSE <<>>)

\* -------------------------------- specification: every normaliser, any value

JsTexts ==
  { <<>>, <<" ">>, <<"a", "b", "c">>, <<"5">>, <<"-", "2", ".", "5">>,
    <<"0", ",", "1", "6", "2", " ", "k", "g">>, <<"5", "0", "0", " ", "g">>,
    <<"3", "0", "x", "2", "0", "x", "1", "0", " ", "m", "m">>, <<"2", "0", "x", "3", "0">>,
    <<"A", "B", "-", "1", "2", "3", "/", "4", "5">>,
    <<"N", "i", "c", "h", "t", " ", "s", "c", "h", "w", "e", "i", "ß",
      "r", "e", "l", "e", "v", "a", "n", "t">>,
    <<"m", "g">>, <<"g">>, <<"k", "g">>, <<"T">>, <<"l", "b">> }

JsInputs ==
  { JsString(s) : s \in JsTexts } \cup { JsNumber(v) : v \in JsNumbers }
    \cup { JsNull, JsUndefined }

Normalisers ==
  { "toNumber", "parseWeight", "weightToKg", "parseDimensionsToLBH", "normPartNo",
    "normalizeNCode", "mapMaterialClassificationToExcel" }

InitTotal ==
  /\ pc = "ready"
  /\ text \in [value : JsInputs, unit : JsInputs]
  /\ dims = NullDims
  /\ code = <<>>
  /\ RowIdle

Returned(fn, result) ==
  /\ pc = "ready"
  /\ out' = [fn |-> fn, result |-> result]
  /\ pc' = "done"
  /\ UNCHANGED <<text, dims, code, a2v, db, web, variant, cell>>
  /\ SheetSame
  /\ ScrapeSame

CallToNumber == Returned("toNumber", toNumberOf(text.value))

CallParseWeight == Returned("parseWeight", parseWeightOf(text.value))

CallWeightToKg == Returned("weightToKg", weightToKgOf(text.value, text.unit))

CallParseDimensions == Returned("parseDimensionsToLBH", parseDimensionsToLBHOf(text.value))

CallNormPartNo == Returned("normPartNo", normPartNoOf(text.value))

CallNormalizeNCode == Returned("normalizeNCode", normalizeNCodeOf(text.value))

CallMapClassification ==
  Returned("mapMaterialClassificationToExcel", mapMaterialClassificationToExcelOf(text.value))

NextTotal ==
  \/ CallToNumber
  \/ CallParseWeight
  \/ CallWeightToKg
  \/ CallParseDimensions
  \/ CallNormPartNo
  \/ CallNormalizeNCode
  \/ CallMapClassification

SpecTotal == InitTotal /\ [][NextTotal]_vars

IsNumberOrNull(r) == r.k \in {"number", "null"}

\* the result has the shape the normaliser promises
ResultShape(fn, r) ==
  CASE fn \in {"toNumber", "weightToKg"} -> IsNumberOrNull(r)
    [] fn = "parseWeight" ->
         r.k = "object" /\ IsNumberOrNull(r.value) /\ r.unit.k = "string"
    [] fn = "parseDimensionsToLBH" ->
         r.k = "object" /\ IsNumberOrNull(r.L) /\ IsNumberOrNull(r.B) /\ IsNumberOrNull(r.H)
    [] OTHER -> r.k = "string"

HEADER_ROW == 3

LABEL_ROW == 4

FIRST_DATA_ROW == 5

MaxDataRows == 3

NoCells == [f \in Fields |-> Painted(FALSE, "none")]

\* a bag without any key: resultsMap.get(a2v) || {}
NoBag ==
  [Produkttitel |-> Null, WeitereArtikelnummer |-> Null, Materialklassifizierung |-> Null,
   Werkstoff |-> Null, Gewicht |-> Null, Abmessung |-> Null]

SheetRow(kind, id, dbRow) == [kind |-> kind, id |-> id, db |-> dbRow, cell |-> NoCells]

\* the rows above the data: titles, technical names, column names
HeaderRows ==
  [r \in 1..HEADER_ROW |->
     SheetRow("header", IF r = HEADER_ROW THEN <<"A", "2", "V", "-", "N", "r">> ELSE Null,
              EmptyDb)]

LabelRow == SheetRow("label", Null, EmptyDb)

SheetIds ==
  { Null, <<"A", "2", "V", "1">>, <<" ", "a", "2", "v", "2", " ">>, <<"X", "1">>,
    <<"B", "A", "2", "V", "1">> }

SheetDbRows ==
  { EmptyDb, [EmptyDb EXCEPT !["C"] = <<"a">>, !["S"] = <<"1", ".", "0">>] }

SheetBags ==
  { SentinelBag,
    [SentinelBag EXCEPT !.Produkttitel = <<"A">>, !.Gewicht = <<"9", "0", "0", " ", "g">>] }

\* (cell.value || '').toString().trim().toUpperCase()
IdentifierOf(v) == toUpperCase(trim(OrEmpty(v)))

\* a2v.startsWith('A2V')
StartsWithA2V(s) == Len(s) >= 3 /\ SubSeq(s, 1, 3) = <<"A", "2", "V">>

\* the row numbers the collection loop visits, given the last row
VisitedRows(last) ==
  [i \in 1..(IF last >= FIRST_DATA_ROW - 1 THEN last - (FIRST_DATA_ROW - 2) ELSE 0)
     |-> i + FIRST_DATA_ROW - 2]

\* a variant that collects every visited row
CollectedRowsUnfiltered(sh) == VisitedRows(Len(sh))

\* indices: the visited rows whose identifier is a product identifier
CollectedRows(sh) ==
  SelectSeq(VisitedRows(Len(sh)), LAMBDA r : StartsWithA2V(IdentifierOf(sh[r].id)))

\* tasks: their identifiers, in the same order
CollectedTasks(sh) ==
  [i \in 1..Len(CollectedRows(sh)) |-> IdentifierOf(sh[CollectedRows(sh)[i]].id)]

Range(q) == { q[i] : i \in 1..Len(q) }

\* ws.spliceRows(LABEL_ROW, 0, [null])
InsertLabelRow(sh) ==
  SubSeq(sh, 1, LABEL_ROW - 1) \o <<LabelRow>> \o SubSeq(sh, LABEL_ROW, Len(sh))

\* one product row under the pair loop
ReconciledRow(row, rm) ==
  LET id  == IdentifierOf(row.id)
      bag == IF id \in DOMAIN rm THEN rm[id] ELSE NoBag
  IN  [row EXCEPT !.cell = [f \in Fields |-> PairFirst(f, row.db[f], bag, id)]]

InitSheet ==
  /\ pc = "uploaded"
  /\ \E n \in 0..MaxDataRows :
       \E ids \in [1..n -> SheetIds], dbs \in [1..n -> SheetDbRows] :
         sheet = HeaderRows \o [i \in 1..n |-> SheetRow("data", ids[i], dbs[i])]
  /\ tasks = <<>>
  /\ prodRows = <<>>
  /\ resultsMap = <<>>
  /\ ScrapeIdle
  /\ ServerIdle
  /\ text = <<>>
  /\ dims = NullDims
  /\ code = <<>>
  /\ out = <<>>
  /\ a2v = <<>>
  /\ db = <<>>
  /\ web = <<>>
  /\ variant = "none"
  /\ cell = <<>>

\* POST /api/process-excel, first handler: collect, retrieve, restructure,
\* reconcile the collected rows
ProcessExcel ==
  /\ pc = "uploaded"
  /\ LET indices == CollectedRows(sheet)
         shifted == InsertLabelRow(sheet)
     IN  /\ prodRows' = indices
         /\ tasks' = CollectedTasks(sheet)
         /\ \E rm \in [Range(CollectedTasks(sheet)) -> SheetBags] :
              /\ resultsMap' = rm
              /\ sheet' = [r \in 1..Len(shifted) |->
                             IF (r - 1) \in Range(indices)
                             THEN ReconciledRow(shifted[r], rm) ELSE shifted[r]]
  /\ pc' = "answered"
  /\ UNCHANGED <<text, dims, code, out, a2v, db, web, variant, cell>>
  /\ ScrapeSame
  /\ ServerSame

NextSheet == ProcessExcel

SpecSheet == InitSheet /\ [][NextSheet]_vars

\* the identifier cell, trimmed and upper-cased, begins with A2V
IsProductIdentifier(v) ==
  LET s == IF IsNull(v) THEN <<>> ELSE toUpperCase(trim(v))
  IN  Len(s) >= 3 /\ s[1] = "A" /\ s[2] = "2" /\ s[3] = "V"

\* C18: a data row whose identifier, trimmed and upper-cased, does not start
\* with A2V is left out: its identifier is not among the tasks, its row is
\* not among the collected rows, and none of its Web cells is written or
\* coloured.
C18_NonProductRowsSkipped ==
  pc = "answered"
    => \A r \in 1..Len(sheet) :
         (sheet[r].kind = "data" /\ ~IsProductIdentifier(sheet[r].id))
           => /\ \A i \in 1..Len(tasks) : tasks[i] # IdentifierOf(sheet[r].id)
              /\ (r - 1) \notin Range(prodRows)
              /\ sheet[r].cell = NoCells

C18_Witness ==
  /\ pc = "answered"
  /\ Len(sheet) = FIRST_DATA_ROW + 1
  /\ sheet[FIRST_DATA_ROW].id = <<"X", "1">>
  /\ sheet[FIRST_DATA_ROW].cell = NoCells
  /\ sheet[FIRST_DATA_ROW + 1].id = <<" ", "a", "2", "v", "2", " ">>
  /\ sheet[FIRST_DATA_ROW + 1].cell["C"].color = "green"
  /\ tasks = << <<"A", "2", "V", "2">> >>

\* ------------------------------------------ soundness of the colours (rows)

\* the Web side of the field's comparison is there (the part number falls
\* back to the identifier where the handler does so)
WebPresent(f) ==
  IF f = "E" THEN variant \in {"first", "header"} \/ Found(web.WeitereArtikelnummer)
  ELSE Found(WebOf(f))

\* the verdict of the field's comparator in the handler that processed the row
ComparatorEqual(f) ==
  CASE f \in TextFields -> eqText(db[f], WebOf(f))
    [] f = "E" -> eqPart(db[f], WebPartNo)
    [] f = "N" -> eqN(db[f], WebCode(WebOf(f)))
    [] f = "S" -> IF variant = "first" THEN eqWeightFirst(db[f], WebOf(f))
                  ELSE eqWeight(db[f], IF variant = "header" THEN db["T"] ELSE Null, WebOf(f))
    [] OTHER   -> eqDimension(db[f], WebOf(f), DimTypeOf(f))

\* C19: a Web cell is green only if the DB value and the Web value are both
\* there and the field's comparator found them equal, and red only if both
\* are there and the comparator found them unequal.
C19_ColoursSoundForPresence ==
  Processed
    => \A f \in Fields :
         /\ cell[f].color = "green"
              => (hasValue(db[f]) /\ WebPresent(f) /\ ComparatorEqual(f))
         /\ cell[f].color = "red"
              => (hasValue(db[f]) /\ WebPresent(f) /\ ~ComparatorEqual(f))

\* ------------------------------------------------ the scraper: scrapeMany

MaxListLen == 3

MaxConcurrency == 3

ScrapeRawIds ==
  { Null, <<"A", "2", "V", "1">>, <<" ", "a", "2", "v", "1", " ">>, <<"A", "2", "V", "2">>,
    <<"A", "2", "V", "3">>, <<"X", "1">> }

ScrapeLists == UNION { [1..k -> ScrapeRawIds] : k \in 0..MaxListLen }

Concurrencies == (-1)..MaxConcurrency

\* a result as the cache and the result map hold it
ScrapeResult(key, how) == [A2V |-> key, Status |-> how]

InitialCaches ==
  { <<>>, [k \in { <<"A", "2", "V", "1">> } |-> ScrapeResult(k, "cached")] }

\* map.set(k, v)
MapSet(m, k, v) == [x \in DOMAIN m \cup {k} |-> IF x = k THEN v ELSE m[x]]

\* a variant that keeps every occurrence
KeepDuplicates(q) == q

\* Array.from(new Set(q)): the first occurrence of each element, in order
RECURSIVE Distinct(_)
Distinct(q) ==
  IF q = <<>> THEN <<>>
  ELSE LET front == Distinct(SubSeq(q, 1, Len(q) - 1))
           last  == q[Len(q)]
       IN  IF last \in Range(front) THEN front ELSE Append(front, last)

\* list.filter(Boolean).map(x => String(x).trim().toUpperCase()), de-duplicated
UniqueOf(list) ==
  LET kept == SelectSeq(list, Truthy)
  IN  Distinct([i \in 1..Len(kept) |-> toUpperCase(trim(kept[i]))])

\* a variant with one worker more
WorkerCountPlusOne(c) == (IF c > 1 THEN c ELSE 1) + 1

\* Math.max(1, concurrency)
WorkerCount(c) == IF c > 1 THEN c ELSE 1

\* scrapeOne up to its first await: refused, answered from the cache, or
\* waiting for the HTTP retrieval
CallOf(key, ch) ==
  IF ~StartsWithA2V(key) THEN "reject"
  ELSE IF key \in DOMAIN ch THEN "hit"
  ELSE "http"

Awaiting(key, ch) == [pc |-> "awaiting", id |-> key, call |-> CallOf(key, ch)]

Finished(how) == [pc |-> how, id |-> <<>>, call |-> "none"]

AllDone(wk) == \A w \in DOMAIN wk : wk[w].pc = "done"

InitScrape ==
  /\ pc = "ready"
  /\ text \in [list : ScrapeLists, concurrency : Concurrencies]
  /\ cache \in InitialCaches
  /\ unique = <<>>
  /\ nextIndex = 0
  /\ results = <<>>
  /\ worker = <<>>
  /\ inflight = 0
  /\ status = "none"
  /\ dims = NullDims
  /\ code = <<>>
  /\ out = <<>>
  /\ a2v = <<>>
  /\ db = <<>>
  /\ web = <<>>
  /\ variant = "none"
  /\ cell = <<>>
  /\ SheetIdle

ScrapeRest ==
  UNCHANGED <<text, dims, code, out, a2v, db, web, variant, cell, sheet, tasks, prodRows,
              resultsMap, DB_WEB_PAIRS, requests>>

\* one invocation of scrapeOne, as the log of invocations keeps it
Invocation(id, w) == [id |-> id, worker |-> w]

\* a variant whose workers end after their first identifier
LoopStops(i, n) == FALSE

\* while (i < unique.length)
LoopContinues(i, n) == i < n

\* scrapeMany(list, concurrency) up to the await of Promise.all: every
\* worker has run to its first await or to its end
StartScrapeMany ==
  /\ pc = "ready"
  /\ LET u == UniqueOf(text.list)
         n == WorkerCount(text.concurrency)
         k == IF n < Len(u) THEN n ELSE Len(u)
     IN  /\ unique' = u
         /\ nextIndex' = k
         /\ worker' = [w \in 1..n |-> IF w <= Len(u) THEN Awaiting(u[w], cache)
                                       ELSE Finished("done")]
         /\ inflight' = k
         /\ calls' = [w \in 1..k |-> Invocation(u[w], w)]
         /\ status' = IF k = 0 THEN "resolved" ELSE "running"
  /\ results' = <<>>
  /\ pc' = "running"
  /\ UNCHANGED cache
  /\ ScrapeRest

\* worker w: its scrapeOne call returned r; results.set, then the loop test
\* and either the next scrapeOne call or the end of the worker
Settle(w, r, ch) ==
  /\ results' = MapSet(results, worker[w].id, r)
  /\ cache' = ch
  /\ IF LoopContinues(nextIndex, Len(unique))
     THEN /\ nextIndex' = nextIndex + 1
          /\ worker' = [worker EXCEPT ![w] = Awaiting(unique[nextIndex + 1], ch)]
          /\ calls' = Append(calls, Invocation(unique[nextIndex + 1], w))
          /\ inflight' = (inflight - 1) + 1
          /\ UNCHANGED status
     ELSE /\ UNCHANGED <<nextIndex, calls>>
          /\ worker' = [worker EXCEPT ![w] = Finished("done")]
          /\ inflight' = inflight - 1
          /\ status' = IF status = "running"
                          /\ AllDone([worker EXCEPT ![w] = Finished("done")])
                       THEN "resolved" ELSE status
  /\ UNCHANGED <<pc, unique>>
  /\ ScrapeRest

\* scrapeOne: this.cache.has(key)
CacheHitReturns ==
  \E w \in DOMAIN worker :
    /\ worker[w].call = "hit"
    /\ Settle(w, cache[worker[w].id], cache)

\* scrapeOne: httpScrapeA2V returned
HttpReturns ==
  \E w \in DOMAIN worker :
    /\ worker[w].call = "http"
    /\ LET r == ScrapeResult(worker[w].id, "http")
       IN  Settle(w, r, MapSet(cache, worker[w].id, r))

\* scrapeOne: httpScrapeA2V threw, pwScrapeA2V is called
HttpThrows ==
  \E w \in DOMAIN worker :
    /\ worker[w].call = "http"
    /\ worker' = [worker EXCEPT ![w].call = "pw"]
    /\ UNCHANGED <<pc, cache, unique, nextIndex, results, inflight, status, calls>>
    /\ ScrapeRest

\* scrapeOne: pwScrapeA2V returned
PwReturns ==
  \E w \in DOMAIN worker :
    /\ worker[w].call = "pw"
    /\ LET r == ScrapeResult(worker[w].id, "Playwright")
       IN  Settle(w, r, MapSet(cache, worker[w].id, r))

\* scrapeOne: pwScrapeA2V threw, the "Nicht gefunden" result is built
PwThrows ==
  \E w \in DOMAIN worker :
    /\ worker[w].call = "pw"
    /\ LET r == ScrapeResult(worker[w].id, "Fehler")
       IN  Settle(w, r, MapSet(cache, worker[w].id, r))

\* scrapeOne threw 'Nur A2V-Nummern sind erlaubt.': the worker ends with the
\* error and Promise.all rejects
CallRejects ==
  \E w \in DOMAIN worker :
    /\ worker[w].call = "reject"
    /\ worker' = [worker EXCEPT ![w] = Finished("failed")]
    /\ inflight' = inflight - 1
    /\ status' = IF status = "running" THEN "rejected" ELSE status
    /\ UNCHANGED <<pc, cache, unique, nextIndex, results, calls>>
    /\ ScrapeRest

NextScrape ==
  \/ StartScrapeMany
  \/ CacheHitReturns
  \/ HttpReturns
  \/ HttpThrows
  \/ PwReturns
  \/ PwThrows
  \/ CallRejects

SpecScrape == InitScrape /\ [][NextScrape]_vars

\* C20: at every moment of a scrapeMany(list, concurrency) call the number
\* of scrapeOne calls started and not yet settled is at most
\* max(1, concurrency).
C20_BoundedParallelism ==
  inflight <= (IF text.concurrency > 1 THEN text.concurrency ELSE 1)

C20_Witness ==
  /\ pc = "running"
  /\ text.concurrency = 2
  /\ Len(unique) = 3
  /\ inflight = 2
  /\ nextIndex = 3
  /\ DOMAIN results # {}

\* ------------------------------------------- scrapeMany: de-duplication

\* the distinct identifiers of the list after trim and upper-case
NormalisedIds(list) ==
  { toUpperCase(trim(list[i])) : i \in { j \in 1..Len(list) : ~IsNull(list[j]) /\ list[j] # <<>> } }

InvokedIds == { calls[c].id : c \in 1..Len(calls) }

\* every worker has ended, with or without an error
AllEnded == pc = "running" /\ \A w \in DOMAIN worker : worker[w].pc # "awaiting"

SpecScrapeFair ==
  /\ SpecScrape
  /\ WF_vars(CacheHitReturns)
  /\ WF_vars(CallRejects)
  /\ WF_vars(HttpReturns \/ HttpThrows)
  /\ WF_vars(PwReturns \/ PwThrows)

\* C23: if every scrapeOne call eventually settles and every identifier of
\* the list starts with A2V, scrapeMany eventually resolves, and the keys of
\* the map it returns are then the distinct normalised identifiers of the
\* list.
C23_ResolvesWithEveryIdentifier ==
  (pc = "running" /\ \A id \in NormalisedIds(text.list) : IsProductIdentifier(id))
    ~> (status = "resolved" /\ DOMAIN results = NormalisedIds(text.list))

C23_Witness ==
  /\ status = "resolved"
  /\ text.concurrency = 1
  /\ Len(unique) = 3
  /\ calls = [c \in 1..3 |-> Invocation(unique[c], 1)]
  /\ DOMAIN results = Range(unique)

\* ------------------------------------------- column layout (server.js)

\* getColumnLetter(index)
RECURSIVE getColumnLetter(_)
getColumnLetter(index) ==
  IF index <= 0 THEN <<>>
  ELSE getColumnLetter((index - 1) \div 26) \o <<UpperAlpha[((index - 1) % 26) + 1]>>

\* letter.charCodeAt(i) - 64
LetterCode(c) ==
  [A |-> 1, B |-> 2, C |-> 3, D |-> 4, E |-> 5, F |-> 6, G |-> 7, H |-> 8, I |-> 9,
   J |-> 10, K |-> 11, L |-> 12, M |-> 13, N |-> 14, O |-> 15, P |-> 16, Q |-> 17,
   R |-> 18, S |-> 19, T |-> 20, U |-> 21, V |-> 22, W |-> 23, X |-> 24, Y |-> 25,
   Z |-> 26][c]

\* getColumnIndex(letter)
RECURSIVE getColumnIndex(_)
getColumnIndex(letter) ==
  IF letter = <<>> THEN 0
  ELSE getColumnIndex(SubSeq(letter, 1, Len(letter) - 1)) * 26 + LetterCode(letter[Len(letter)])

\* ORIGINAL_COLS.Z
IdentifierColumn == <<"Z">>

PairOriginals == <<"C", "E", "N", "P", "S", "U", "V", "W">>

\* DB_WEB_PAIRS as the module is loaded
InitialPairs ==
  [k \in 1..Len(PairOriginals) |-> [original |-> PairOriginals[k], dbCol |-> Null, webCol |-> Null]]

\* a variant that continues from the columns a previous call left in the table
PairsFromPreviousColumns(table) ==
  [k \in 1..Len(table) |->
     LET start    == IF IsNull(table[k].dbCol) THEN getColumnIndex(<<table[k].original>>)
                     ELSE getColumnIndex(table[k].dbCol)
         adjusted == start + (k - 1)
     IN  [table[k] EXCEPT !.dbCol = getColumnLetter(adjusted),
                          !.webCol = getColumnLetter(adjusted + 1)]]

\* a variant that leaves every pair at its original column
PairsWithoutShift(table) ==
  [k \in 1..Len(table) |->
     [table[k] EXCEPT !.dbCol = <<table[k].original>>,
                      !.webCol = getColumnLetter(getColumnIndex(<<table[k].original>>) + 1)]]

\* calculateNewColumnStructure, first loop: the pair table as the call
\* leaves it, given the table it finds
PairsWritten(table) ==
  [k \in 1..Len(table) |->
     LET adjusted == getColumnIndex(<<table[k].original>>) + (k - 1)
     IN  [table[k] EXCEPT !.dbCol = getColumnLetter(adjusted),
                          !.webCol = getColumnLetter(adjusted + 1)]]

\* calculateNewColumnStructure(ws), given the pair table it finds and the
\* worksheet's last column: the table as it leaves it, and the structure
\* it returns
calculateNewColumnStructure(table, lastCol) ==
  LET written == PairsWritten(table)
      others ==
        { c \in 1..lastCol :
            \A k \in 1..Len(written) : getColumnLetter(c) # <<written[k].original>> }
      insertedBefore(c) ==
        Cardinality({ k \in 1..Len(written) : getColumnIndex(<<written[k].original>>) < c })
      lastWith(l) ==
        LET named == { c \in others : getColumnLetter(c) = l }
        IN  CHOOSE c \in named : \A d \in named : d <= c
  IN  [table |-> written,
       pairs |-> written,
       otherCols |-> [l \in { getColumnLetter(c) : c \in others } |->
                        getColumnLetter(lastWith(l) + insertedBefore(lastWith(l)))],
       totalInsertedCols |-> Len(table)]

\* ------------------------------------------------ worksheet cells

\* one statement after another: the step applied to the value x has reached
Then(x, Step(_)) == CHOOSE r \in { Step(y) : y \in {x} } : TRUE

\* a cell: its value, whether the handler assigned a Web value to it, its fill
EmptyCell == [value |-> Null, written |-> FALSE, color |-> "none"]

ValueCell(v) == [value |-> v, written |-> FALSE, color |-> "none"]

Pad(q, n, filler) ==
  IF n <= Len(q) THEN q ELSE q \o [i \in 1..(n - Len(q)) |-> filler]

\* ws.getCell(`${col}${r}`), read
getCell(ws, col, r) ==
  LET c == getColumnIndex(col)
  IN  IF r \in 1..Len(ws) /\ c \in 1..Len(ws[r]) THEN ws[r][c] ELSE EmptyCell

\* ws.getCell(`${col}${r}`), assigned
setCell(ws, col, r, v) ==
  LET c    == getColumnIndex(col)
      rows == Pad(ws, r, <<>>)
  IN  [rows EXCEPT ![r] = [Pad(rows[r], c, EmptyCell) EXCEPT ![c] = v]]

\* ws.spliceColumns(start, 0, [null])
spliceColumns(ws, start) ==
  [r \in 1..Len(ws) |->
     IF start <= Len(ws[r])
     THEN SubSeq(ws[r], 1, start - 1) \o <<EmptyCell>> \o SubSeq(ws[r], start, Len(ws[r]))
     ELSE ws[r]]

\* ws.spliceRows(start, 0, [null])
spliceRows(ws, start) ==
  IF start <= Len(ws)
  THEN SubSeq(ws, 1, start - 1) \o << <<>> >> \o SubSeq(ws, start, Len(ws))
  ELSE ws

\* ws.lastRow?.number || 0
LastRow(ws) == Len(ws)

\* ws.lastColumn?.number || ws.columnCount || ... || 0
LastColumn(ws) ==
  IF ws = <<>> THEN 0
  ELSE CHOOSE n \in { Len(ws[r]) : r \in 1..Len(ws) } : \A r \in 1..Len(ws) : Len(ws[r]) <= n

\* indices: the visited rows whose cell in column Z holds a product identifier
GridCollectedRows(ws) ==
  SelectSeq(VisitedRows(LastRow(ws)),
            LAMBDA r : StartsWithA2V(IdentifierOf(getCell(ws, IdentifierColumn, r).value)))

\* tasks: their identifiers
GridCollectedTasks(ws) ==
  [i \in 1..Len(GridCollectedRows(ws)) |->
     IdentifierOf(getCell(ws, IdentifierColumn, GridCollectedRows(ws)[i]).value)]

\* step 3.2: one column to the right of each pair's original column, from
\* the last pair to the first
RECURSIVE InsertPairColumns(_, _, _)
InsertPairColumns(ws, pairs, done) ==
  IF done = Len(pairs) THEN ws
  ELSE Then(spliceColumns(ws, getColumnIndex(<<pairs[Len(pairs) - done].original>>) + 1),
            LAMBDA w : InsertPairColumns(w, pairs, done + 1))

\* copyColumnFormatting, one row: the fill goes over when the source has one
CopyFill(ws, fromCol, toCol, r) ==
  IF getCell(ws, fromCol, r).color = "none" THEN ws
  ELSE setCell(ws, toCol, r, [getCell(ws, toCol, r) EXCEPT !.color = getCell(ws, fromCol, r).color])

\* step 3.4 for one pair: rows 2 and 3 mirrored into the Web column, the
\* two labels of row 4
LabelPair(ws, pair) ==
  LET m2 == setCell(ws, pair.webCol, 2,
                    [getCell(ws, pair.webCol, 2) EXCEPT !.value = getCell(ws, pair.dbCol, 2).value])
      m3 == setCell(m2, pair.webCol, 3,
                    [getCell(m2, pair.webCol, 3) EXCEPT !.value = getCell(m2, pair.dbCol, 3).value])
      f  == CopyFill(CopyFill(CopyFill(m3, pair.dbCol, pair.webCol, 1),
                              pair.dbCol, pair.webCol, 2), pair.dbCol, pair.webCol, 3)
      l1 == setCell(f, pair.dbCol, LABEL_ROW,
                    [value |-> <<"D", "B", "-", "W", "e", "r", "t">>, written |-> FALSE, color |-> "dbBlue"])
  IN  setCell(l1, pair.webCol, LABEL_ROW,
              [value |-> <<"W", "e", "b", "-", "W", "e", "r", "t">>, written |-> FALSE, color |-> "webBlue"])

RECURSIVE LabelPairs(_, _, _)
LabelPairs(ws, pairs, k) ==
  IF k = 0 THEN ws
  ELSE Then(LabelPairs(ws, pairs, k - 1), LAMBDA w : LabelPair(w, pairs[k]))

\* applyTopHeader: the three titles of row 1
applyTopHeader(ws) ==
  LET b  == setCell(ws, <<"B">>, 1,
                    [getCell(ws, <<"B">>, 1) EXCEPT
                       !.value = <<"D", "B", " ", "A", "G", " ", "S", "A", "P", " ", "R", "/", "3", " ", "K", " ", "M", "A", "R", "A", " ", "S", "t", "a", "m", "m", "d", "a", "t", "e", "n", " ", "S", "t", "a", "n", "d", " ", "2", "0", ".", "M", "a", "i", " ", "2", "0", "2", "5">>])
      ag == setCell(b, <<"A", "G">>, 1,
                    [getCell(b, <<"A", "G">>, 1) EXCEPT
                       !.value = <<"S", "A", "P", " ", "K", "l", "a", "s", "s", "i", "f", "i", "z", "i", "e", "r", "u", "n", "g", " ", "a", "u", "s", " ", "O", "k", "t", "2", "4">>])
  IN  setCell(ag, <<"A", "H">>, 1,
              [getCell(ag, <<"A", "H">>, 1) EXCEPT
                 !.value = <<"Z", "u", "s", "a", "t", "z", " ", "H", "e", "r", "s", "t", "e", "l", "l", "e", "r", "d", "a", "t", "e", "n", " ", "a", "u", "s", " ", "A", "b", "f", "r", "a", "g", "e", "n", " ", "i", "n", " ", "2", "0", "2", "4">>])

\* step 3.7 for one pair of one product row
WritePair(ws, pair, row, bag, id) ==
  LET res == PairFirst(pair.original, getCell(ws, pair.dbCol, row).value, bag, id)
      old == getCell(ws, pair.webCol, row)
  IN  IF res.written \/ res.color # "none"
      THEN setCell(ws, pair.webCol, row,
                   [old EXCEPT !.written = res.written \/ old.written,
                               !.color = IF res.color = "none" THEN old.color ELSE res.color])
      ELSE ws

RECURSIVE WritePairs(_, _, _, _, _, _)
WritePairs(ws, pairs, row, bag, id, k) ==
  IF k = 0 THEN ws
  ELSE Then(WritePairs(ws, pairs, row, bag, id, k - 1),
            LAMBDA w : WritePair(w, pairs[k], row, bag, id))

\* a variant that re-reads the identifier where it was before the insertion
UnshiftedIdentifierColumn(structure) == IdentifierColumn

\* the column the identifier is read from after the restructuring
ShiftedIdentifierColumn(structure) ==
  IF IdentifierColumn \in DOMAIN structure.otherCols
  THEN structure.otherCols[IdentifierColumn]
  ELSE IdentifierColumn

\* the identifier re-read for a collected row
RereadIdentifier(ws, structure, originalRow) ==
  IdentifierOf(getCell(ws, ShiftedIdentifierColumn(structure), originalRow + 1).value)

\* step 3.7 for one collected row
GridReconcileRow(ws, structure, rm, originalRow) ==
  LET id  == RereadIdentifier(ws, structure, originalRow)
      bag == IF id \in DOMAIN rm THEN rm[id] ELSE NoBag
  IN  WritePairs(ws, structure.pairs, originalRow + 1, bag, id, Len(structure.pairs))

RECURSIVE GridReconcileRows(_, _, _, _, _)
GridReconcileRows(ws, structure, rm, indices, k) ==
  IF k = 0 THEN ws
  ELSE Then(GridReconcileRows(ws, structure, rm, indices, k - 1),
            LAMBDA w : GridReconcileRow(w, structure, rm, indices[k]))

\* steps 3.2 to 3.6: the worksheet restructured, before any row is reconciled
Restructured(ws, structure) ==
  Then(LabelPairs(spliceRows(InsertPairColumns(ws, structure.pairs, 0), LABEL_ROW),
                  structure.pairs, Len(structure.pairs)),
       LAMBDA w : applyTopHeader(w))

\* step 3 of the handler on one worksheet
Rebuilt(ws, structure, rm, indices) ==
  Then(Restructured(ws, structure),
       LAMBDA w : GridReconcileRows(w, structure, rm, indices, Len(indices)))

\* ------------------------- specification: two process-excel requests

MaxGridRows == 2

MaxOtherRows == 1

GridWidths == {4, 27}

\* a data row: its identifier and its DB cells
GridRowKinds ==
  { [id |-> <<"A", "2", "V", "1">>, db |-> [EmptyDb EXCEPT !["C"] = <<"a">>, !["S"] = <<"1", ".", "0">>]],
    [id |-> <<" ", "a", "2", "v", "2", " ">>, db |-> [EmptyDb EXCEPT !["S"] = <<"0", ".", "9">>]],
    [id |-> <<"X", "1">>, db |-> [EmptyDb EXCEPT !["C"] = <<"a">>]] }

\* rows 1 to 3: row 3 holds each column's name
GridHeaderRows(width) ==
  [r \in 1..HEADER_ROW |->
     [c \in 1..width |-> IF r = HEADER_ROW THEN ValueCell(<<"n">> \o getColumnLetter(c))
                         ELSE EmptyCell]]

\* a data row: the DB cells in their columns, the identifier in column Z
GridDataRow(width, kind) ==
  [c \in 1..width |->
     IF getColumnLetter(c) = IdentifierColumn THEN ValueCell(kind.id)
     ELSE IF \E f \in DbCols : <<f>> = getColumnLetter(c)
          THEN ValueCell(kind.db[CHOOSE f \in DbCols : <<f>> = getColumnLetter(c)])
          ELSE EmptyCell]

\* the workbooks of one worksheet with up to n data rows; a worksheet
\* narrower than the identifier column has none
WorkbooksUpTo(n) ==
  UNION { { GridHeaderRows(w) \o [i \in 1..Len(kinds) |-> GridDataRow(w, kinds[i])] :
              kinds \in UNION { [1..m -> GridRowKinds] : m \in 0..(IF w >= 26 THEN n ELSE 0) } } :
          w \in GridWidths }

\* the two requests
RequestIds == {1, 2}

Received(wb) ==
  [pc |-> "received", upload |-> wb, ws |-> <<>>, indices |-> <<>>, tasks |-> <<>>,
   missed |-> {}, resultsMap |-> <<>>, structure |-> <<>>, found |-> <<>>]

InitServer ==
  /\ pc = "serving"
  /\ \E wb1 \in WorkbooksUpTo(MaxGridRows), wb2 \in WorkbooksUpTo(MaxOtherRows) :
       requests = [i \in RequestIds |-> Received(IF i = 1 THEN wb1 ELSE wb2)]
  /\ DB_WEB_PAIRS = InitialPairs
  /\ cache = <<>>
  /\ calls = <<>>
  /\ unique = <<>>
  /\ nextIndex = 0
  /\ results = <<>>
  /\ worker = <<>>
  /\ inflight = 0
  /\ status = "none"
  /\ sheet = <<>>
  /\ tasks = <<>>
  /\ prodRows = <<>>
  /\ resultsMap = <<>>
  /\ text = <<>>
  /\ dims = NullDims
  /\ code = <<>>
  /\ out = <<>>
  /\ a2v = <<>>
  /\ db = <<>>
  /\ web = <<>>
  /\ variant = "none"
  /\ cell = <<>>

ServerRest ==
  UNCHANGED <<pc, text, dims, code, out, a2v, db, web, variant, cell, sheet, tasks, prodRows,
              resultsMap, unique, nextIndex, results, worker, inflight, status, calls>>

\* wb.xlsx.load returned: the product rows are collected and scrapeMany is called
LoadReturns ==
  \E i \in RequestIds :
    /\ requests[i].pc = "received"
    /\ requests' =
         [requests EXCEPT ![i] =
            [requests[i] EXCEPT
               !.pc = "scraping",
               !.ws = requests[i].upload,
               !.indices = GridCollectedRows(requests[i].upload),
               !.tasks = GridCollectedTasks(requests[i].upload),
               !.missed = Range(GridCollectedTasks(requests[i].upload)) \ DOMAIN cache]]
    /\ UNCHANGED <<DB_WEB_PAIRS, cache>>
    /\ ServerRest

\* scrapeMany returned: an identifier cached before the call has its cached
\* bag, any other one the cached bag or a retrieved one, which is cached;
\* then step 3 runs up to the await of writeBuffer
ScrapeManyReturns ==
  \E i \in RequestIds :
    /\ requests[i].pc = "scraping"
    /\ \E structure \in { calculateNewColumnStructure(DB_WEB_PAIRS, LastColumn(requests[i].ws)) },
          rm \in [Range(requests[i].tasks) -> SheetBags] :
         /\ \A k \in Range(requests[i].tasks) \ requests[i].missed : rm[k] = cache[k]
         /\ cache' = [k \in DOMAIN cache \cup DOMAIN rm |->
                        IF k \in DOMAIN rm THEN rm[k] ELSE cache[k]]
         /\ DB_WEB_PAIRS' = structure.table
         /\ requests' =
              [requests EXCEPT ![i] =
                 [requests[i] EXCEPT
                    !.pc = "writing",
                    !.resultsMap = rm,
                    !.structure = structure,
                    !.found = DB_WEB_PAIRS,
                    !.ws = Rebuilt(requests[i].ws, structure, rm, requests[i].indices)]]
    /\ ServerRest

\* wb.xlsx.writeBuffer returned: the workbook is sent
WriteBufferReturns ==
  \E i \in RequestIds :
    /\ requests[i].pc = "writing"
    /\ requests' = [requests EXCEPT ![i] = [requests[i] EXCEPT !.pc = "answered"]]
    /\ UNCHANGED <<DB_WEB_PAIRS, cache>>
    /\ ServerRest

NextServer ==
  \/ LoadReturns
  \/ ScrapeManyReturns
  \/ WriteBufferReturns

SpecServer == InitServer /\ [][NextServer]_vars

\* the request processed with no other request around: the pair table as the
\* module is loaded, the same workbook, the same retrieved bags
ProcessedAlone(wb, rm) ==
  LET structure == calculateNewColumnStructure(InitialPairs, LastColumn(wb))
  IN  [structure |-> structure,
       ws |-> Rebuilt(wb, structure, rm, GridCollectedRows(wb))]

\* C21: when two process-excel requests interleave at their await points,
\* every field outcome of each request (the Web cell of every pair in every
\* collected row) is the same as when the request runs alone on the same
\* workbook with the same retrieved bags.
C21_OutcomesAsWhenAlone ==
  \A i \in RequestIds :
    requests[i].pc \in {"writing", "answered"}
      => \A alone \in { ProcessedAlone(requests[i].upload, requests[i].resultsMap) } :
           \A k \in 1..Len(requests[i].indices), p \in 1..Len(alone.structure.pairs) :
             getCell(requests[i].ws, alone.structure.pairs[p].webCol, requests[i].indices[k] + 1)
               = getCell(alone.ws, alone.structure.pairs[p].webCol, requests[i].indices[k] + 1)

C21_Witness ==
  /\ requests[1].pc = "answered"
  /\ requests[2].pc = "answered"
  /\ requests[1].found # InitialPairs
  /\ requests[1].indices = <<4, 5>>
  /\ getCell(requests[1].ws, <<"D">>, 5).color = "green"
  /\ getCell(requests[1].ws, <<"X">>, 5).color = "red"
  /\ requests[2].indices = <<4>>
  /\ getCell(requests[2].ws, <<"D">>, 5).color = "orange"

\* --------------------------- the scraper: scrapeOne on the shared instance

MaxCalls == 3

OneArgs ==
  { Null, <<"A", "2", "V", "1">>, <<" ", "a", "2", "v", "1", " ">>, <<"X", "1">> }

RetrievedTitles == { Sentinel, <<"A">> }

\* a variant whose failure object carries a title
FailureBagWithTitle(key, message) ==
  [A2V |-> key, Produkttitel |-> <<"A">>, WeitereArtikelnummer |-> Sentinel,
   Abmessung |-> Sentinel, Gewicht |-> Sentinel, Werkstoff |-> Sentinel,
   Materialklassifizierung |-> Sentinel, FertPruefhinweis |-> Sentinel,
   Status |-> <<"Fehler", message>>]

\* the object scrapeOne builds when both retrievals threw
FailureBag(key, message) ==
  [A2V |-> key, Produkttitel |-> Sentinel, WeitereArtikelnummer |-> Sentinel,
   Abmessung |-> Sentinel, Gewicht |-> Sentinel, Werkstoff |-> Sentinel,
   Materialklassifizierung |-> Sentinel, FertPruefhinweis |-> Sentinel,
   Status |-> <<"Fehler", message>>]

\* the object a retrieval returns: the title as the page gave it, 'Nicht
\* gefunden' for what the page did not give
RetrievedBag(key, title, how) ==
  [FailureBag(key, "none") EXCEPT !.Produkttitel = title, !.Status = <<how>>]

\* String(a2v || '').trim().toUpperCase()
KeyOf(arg) == toUpperCase(trim(OrEmpty(arg)))

Settled(c) == c.stage \in {"resolved", "rejected"}

\* the calls already resolved when a call starts
ResolvedCalls == { p \in DOMAIN calls : calls[p].stage = "resolved" }

\* scrapeOne(arg) up to its first await: refused, answered from the cache, or
\* waiting for httpScrapeA2V
Started(arg) ==
  LET key  == KeyOf(arg)
      call == CallOf(key, cache)
  IN  [arg    |-> arg,
       key    |-> key,
       stage  |-> CASE call = "reject" -> "rejected"
                    [] call = "hit"    -> "resolved"
                    [] OTHER           -> "http",
       page   |-> "none",
       trace  |-> IF call = "http" THEN <<"http">> ELSE <<>>,
       out    |-> IF call = "hit" THEN cache[key] ELSE <<>>,
       prior  |-> ResolvedCalls]

InitOne ==
  /\ pc = "scraper"
  /\ text = Null
  /\ dims = NullDims
  /\ code = <<>>
  /\ RowIdle

OneRest ==
  UNCHANGED <<pc, text, dims, code, out, a2v, db, web, variant, cell, sheet, tasks, prodRows,
              resultsMap, unique, nextIndex, results, worker, inflight, status,
              DB_WEB_PAIRS, requests>>

\* a scrapeOne call arrives (from a worker of any scrapeMany batch)
CallScrapeOne ==
  /\ Len(calls) < MaxCalls
  /\ \E arg \in OneArgs : calls' = Append(calls, Started(arg))
  /\ UNCHANGED cache
  /\ OneRest

\* this.cache.set(key, out); return out
Resolve(c, bag, page, events) ==
  /\ calls' = [calls EXCEPT ![c].stage = "resolved", ![c].out = bag, ![c].page = page,
                            ![c].trace = @ \o events]
  /\ cache' = MapSet(cache, calls[c].key, bag)
  /\ OneRest

\* the call moves on to its next await
Advance(c, stage, page, events) ==
  /\ calls' = [calls EXCEPT ![c].stage = stage, ![c].page = page,
                            ![c].trace = @ \o events]
  /\ UNCHANGED cache
  /\ OneRest

\* httpScrapeA2V returned
HttpScrapeReturns ==
  \E c \in DOMAIN calls, title \in RetrievedTitles :
    /\ calls[c].stage = "http"
    /\ Resolve(c, RetrievedBag(calls[c].key, title, "HTTP"), "none", <<"http returned">>)

\* httpScrapeA2V threw: pwScrapeA2V is called and awaits _initPlaywright
HttpScrapeThrows ==
  \E c \in DOMAIN calls :
    /\ calls[c].stage = "http"
    /\ Advance(c, "init", "none", <<"http threw", "pw">>)

\* pwScrapeA2V: _initPlaywright returned false or threw, or newPage threw
PlaywrightUnavailable ==
  \E c \in DOMAIN calls :
    /\ calls[c].stage = "init"
    /\ Resolve(c, FailureBag(calls[c].key, "unavailable"), "none", <<"pw threw">>)

\* pwScrapeA2V: this.context.newPage() returned, page.goto is awaited
NewPageReturns ==
  \E c \in DOMAIN calls :
    /\ calls[c].stage = "init"
    /\ Advance(c, "goto", "open", <<"page">>)

\* pwScrapeA2V: page.goto threw (navigation timeout)
GotoThrows ==
  \E c \in DOMAIN calls :
    /\ calls[c].stage = "goto"
    /\ Resolve(c, FailureBag(calls[c].key, "goto"), calls[c].page, <<"pw threw">>)

\* pwScrapeA2V: page.goto returned, the first page.evaluate is awaited
GotoReturns ==
  \E c \in DOMAIN calls :
    /\ calls[c].stage = "goto"
    /\ Advance(c, "evaluate", calls[c].page, <<"loaded">>)

\* pwScrapeA2V: a page.evaluate threw
EvaluateThrows ==
  \E c \in DOMAIN calls :
    /\ calls[c].stage \in {"evaluate", "table"}
    /\ Resolve(c, FailureBag(calls[c].key, "evaluate"), calls[c].page, <<"pw threw">>)

\* pwScrapeA2V: the initial data was found and mapped; page.close(); return mapped
InitialDataMapped ==
  \E c \in DOMAIN calls, title \in RetrievedTitles :
    /\ calls[c].stage = "evaluate"
    /\ Resolve(c, RetrievedBag(calls[c].key, title, "Playwright"), "closed", <<"pw returned">>)

\* pwScrapeA2V: no initial data, or it could not be mapped, or page.close()
\* threw inside the try block: the second page.evaluate is awaited
InitialDataMissing ==
  \E c \in DOMAIN calls :
    /\ calls[c].stage = "evaluate"
    /\ Advance(c, "table", calls[c].page, <<"no initial data">>)

\* pwScrapeA2V: the table was read; page.close(); return the object
TableReturns ==
  \E c \in DOMAIN calls, title \in RetrievedTitles :
    /\ calls[c].stage = "table"
    /\ Resolve(c, RetrievedBag(calls[c].key, title, "Playwright"), "closed", <<"pw returned">>)

\* pwScrapeA2V: the table was read and page.close() threw; whether the page
\* is gone is not known
CloseThrows ==
  \E c \in DOMAIN calls, page \in {"open", "closed"} :
    /\ calls[c].stage = "table"
    /\ Resolve(c, FailureBag(calls[c].key, "close"), page, <<"pw threw">>)

NextOne ==
  \/ CallScrapeOne
  \/ HttpScrapeReturns
  \/ HttpScrapeThrows
  \/ PlaywrightUnavailable
  \/ NewPageReturns
  \/ GotoThrows
  \/ GotoReturns
  \/ EvaluateThrows
  \/ InitialDataMapped
  \/ InitialDataMissing
  \/ TableReturns
  \/ CloseThrows

SpecOne == InitOne /\ [][NextOne]_vars

\* ---------------------------------------------- scrapeOne: error handling

SentinelKeys ==
  {"Produkttitel", "WeitereArtikelnummer", "Abmessung", "Gewicht", "Werkstoff",
   "Materialklassifizierung"}

BothThrew(c) == "http threw" \in Range(c.trace) /\ "pw threw" \in Range(c.trace)

\* what holds of every scrapeOne call made so far
HandledAsDescribed(c) ==
  IF StartsWithA2V(toUpperCase(trim(OrEmpty(c.arg))))
  THEN /\ c.stage # "rejected"
       /\ c.trace # <<>> => c.trace[1] = "http"
       /\ \A i \in 1..Len(c.trace) :
            c.trace[i] = "pw" => i > 1 /\ c.trace[i - 1] = "http threw"
       /\ \A i \in 1..Len(c.trace) :
            c.trace[i] \in {"page", "pw threw", "pw returned"}
              => \E j \in 1..(i - 1) : c.trace[j] = "pw"
       /\ c.stage = "resolved" /\ BothThrew(c)
            => \A f \in SentinelKeys : c.out[f] = Sentinel
  ELSE /\ c.stage = "rejected"
       /\ c.trace = <<>>

\* a step in which a call is refused leaves the cache as it was
RefusalKeepsCache ==
  (Len(calls') = Len(calls) + 1 /\ calls'[Len(calls')].stage = "rejected")
    => cache' = cache

\* C24: scrapeOne never rejects for an identifier that starts with 'A2V'
\* after trim and upper-case: the HTTP retrieval comes first, the browser
\* retrieval only after the HTTP retrieval threw, and when both threw the call
\* resolves to an object whose Produkttitel, Weitere Artikelnummer, Abmessung,
\* Gewicht, Werkstoff and Materialklassifizierung are all "Nicht gefunden";
\* for an identifier without the prefix it rejects without fetching and
\* without changing the cache.
C24_RejectsOnlyWithoutPrefix ==
  /\ [](\A c \in DOMAIN calls : HandledAsDescribed(calls[c]))
  /\ [][RefusalKeepsCache]_vars

C24_Witness ==
  /\ Len(calls) = 3
  /\ calls[1].arg = <<" ", "a", "2", "v", "1", " ">>
  /\ calls[1].stage = "resolved"
  /\ calls[1].trace = <<"http", "http threw", "pw", "page", "pw threw">>
  /\ calls[1].out.Gewicht = Sentinel
  /\ calls[2].arg = <<"X", "1">>
  /\ calls[2].stage = "rejected"
  /\ calls[2].prior = {1}
  /\ cache = [k \in {<<"A", "2", "V", "1">>} |-> calls[1].out]
  /\ calls[3].arg = Null
  /\ calls[3].stage = "rejected"

\* ------------------------------------------------- scrapeOne: the cache

\* C25: once a scrapeOne call for an identifier has resolved, every call for
\* the same normalised identifier that starts afterwards resolves to the
\* object that call resolved to, without an HTTP or browser request; this
\* includes the "Nicht gefunden" object of a failed retrieval.
C25_LaterCallsGetTheResolvedBag ==
  \A c \in DOMAIN calls : \A p \in calls[c].prior :
    calls[p].key = calls[c].key
      => /\ calls[c].stage = "resolved"
         /\ calls[c].trace = <<>>
         /\ calls[c].out = calls[p].out

\* the part of C25 that holds: a call started after a resolved call for the
\* same identifier is answered from the cache without a request
LaterCallsAnsweredFromCache ==
  \A c \in DOMAIN calls : \A p \in calls[c].prior :
    calls[p].key = calls[c].key
      => calls[c].stage = "resolved" /\ calls[c].trace = <<>>

\* cache.set on a key the cache holds keeps the object it holds
EntryKept == \A k \in DOMAIN cache : k \in DOMAIN cache' /\ cache'[k] = cache[k]

Retrievals(key) ==
  { c \in DOMAIN calls : calls[c].key = key /\ calls[c].trace # <<>> }

\* C26: once the cache holds an object for an identifier the entry is never
\* replaced by another object, also when two scrapeOne calls for the same
\* identifier are in flight at the same time; an identifier is retrieved
\* upstream at most once per scraper.
C26_EntryNeverReplaced ==
  /\ [][EntryKept]_vars
  /\ [](\A c \in DOMAIN calls : Cardinality(Retrievals(calls[c].key)) <= 1)

\* C27: every page opened by pwScrapeA2V is closed by the time the call
\* settles, whether it returns an object or throws.
C27_NoPageLeftOpen ==
  \A c \in DOMAIN calls : Settled(calls[c]) => calls[c].page # "open"

\* ------------------------------------- the handler: rows and identifiers

\* the Web cells of a collected row, had the row been reconciled against the
\* bag retrieved for the identifier collected for it
ReconciledAgainstOwn(ws, structure, rm, id, originalRow) ==
  WritePairs(ws, structure.pairs, originalRow + 1,
             IF id \in DOMAIN rm THEN rm[id] ELSE NoBag, id, Len(structure.pairs))

PairingKept(q) ==
  \A before \in { Restructured(q.upload, q.structure) } :
    \A k \in 1..Len(q.indices) :
      /\ RereadIdentifier(before, q.structure, q.indices[k]) = q.tasks[k]
      /\ RereadIdentifier(q.ws, q.structure, q.indices[k]) = q.tasks[k]
      /\ \A own \in { ReconciledAgainstOwn(before, q.structure, q.resultsMap, q.tasks[k],
                                           q.indices[k]) } :
           \A p \in 1..Len(q.structure.pairs) :
             getCell(q.ws, q.structure.pairs[p].webCol, q.indices[k] + 1)
               = getCell(own, q.structure.pairs[p].webCol, q.indices[k] + 1)

\* C28: for every row collected as a product row before the Web columns and
\* the label row are inserted, the identifier re-read from the shifted
\* identifier column at row + 1 after the insertion equals the identifier
\* collected for that row, and the row is reconciled against the bag
\* retrieved for that identifier.
C28_PairingSurvivesLayoutChange ==
  \A i \in RequestIds :
    requests[i].pc \in {"writing", "answered"} => PairingKept(requests[i])

C28_Witness ==
  /\ requests[1].pc = "writing"
  /\ requests[1].indices = <<4, 5>>
  /\ requests[1].tasks = <<<<"A", "2", "V", "1">>, <<"A", "2", "V", "2">>>>
  /\ requests[1].resultsMap[<<"A", "2", "V", "1">>] # requests[1].resultsMap[<<"A", "2", "V", "2">>]
  /\ getCell(requests[1].upload, <<"Z">>, 5).value = <<" ", "a", "2", "v", "2", " ">>
  /\ getCell(requests[1].ws, <<"Z">>, 6).value = Null
  /\ getCell(requests[1].ws, <<"A", "H">>, 6).value = <<" ", "a", "2", "v", "2", " ">>
  /\ getCell(requests[1].ws, <<"A", "H">>, 4).written = FALSE

\* ------------------------------------------ the handler: column layout

\* the structure computed for a worksheet against the worksheet after the
\* columns were inserted from right to left
LayoutSound(wb, structure) ==
  LET pairs == structure.pairs
      index(k) == getColumnIndex(<<pairs[k].original>>)
      others == { c \in 1..LastColumn(wb) : \A k \in 1..Len(pairs) : index(k) # c }
      leftOf(c) == Cardinality({ k \in 1..Len(pairs) : index(k) < c })
      entries ==
        { pairs[k].dbCol : k \in 1..Len(pairs) } \cup { pairs[k].webCol : k \in 1..Len(pairs) }
          \cup { structure.otherCols[l] : l \in DOMAIN structure.otherCols }
  IN  /\ \A k \in 1..Len(pairs) :
           /\ getColumnIndex(pairs[k].dbCol) = index(k) + (k - 1)
           /\ getColumnIndex(pairs[k].webCol) = getColumnIndex(pairs[k].dbCol) + 1
      /\ DOMAIN structure.otherCols = { getColumnLetter(c) : c \in others }
      /\ \A c \in others :
           structure.otherCols[getColumnLetter(c)] = getColumnLetter(c + leftOf(c))
      /\ Cardinality(entries) = 2 * Len(pairs) + Cardinality(others)
      /\ \A inserted \in { InsertPairColumns(wb, pairs, 0) } :
           /\ \A c \in others :
                getCell(inserted, structure.otherCols[getColumnLetter(c)], HEADER_ROW)
                  = getCell(wb, getColumnLetter(c), HEADER_ROW)
           /\ \A k \in 1..Len(pairs) :
                /\ getCell(inserted, pairs[k].dbCol, HEADER_ROW)
                     = getCell(wb, <<pairs[k].original>>, HEADER_ROW)
                /\ getCell(inserted, pairs[k].webCol, HEADER_ROW) = EmptyCell

\* C29: the layout computed by calculateNewColumnStructure is free of
\* collisions and agrees with the right-to-left insertion: the k-th pair
\* (counted from 0) has dbCol at its original index + k and webCol directly
\* to its right, every other original column c maps to c plus the number of
\* pair columns left of it, and no two of all dbCol, webCol and mapped other
\* columns are the same column.
C29_LayoutMatchesInsertion ==
  \A i \in RequestIds :
    requests[i].pc \in {"writing", "answered"}
      => LayoutSound(requests[i].upload, requests[i].structure)

C29_Witness ==
  /\ requests[2].pc = "writing"
  /\ requests[1].pc = "scraping"
  /\ LastColumn(requests[2].upload) = 27
  /\ requests[2].structure.pairs[8].original = "W"
  /\ requests[2].structure.pairs[8].dbCol = <<"A", "D">>
  /\ requests[2].structure.pairs[8].webCol = <<"A", "E">>
  /\ requests[2].structure.otherCols[<<"Z">>] = <<"A", "H">>
  /\ requests[2].structure.otherCols[<<"A", "A">>] = <<"A", "I">>
  /\ getCell(InsertPairColumns(requests[2].upload, requests[2].structure.pairs, 0),
             <<"A", "H">>, HEADER_ROW).value = <<"n", "Z">>

\* ------------------------------------- parseWeight: number and unit token

WeightNumbers == { <<"5">>, <<"0", ",", "5">> }

WeightUnits == { <<"m", "g">>, <<"g">>, <<"k", "g">>, <<"t">> }

\* C30: parseWeight detects the same unit whether or not whitespace separates
\* the number from the unit token: for every number n and unit u of mg, g,
\* kg, t, parseWeight of n directly followed by u returns the same value and
\* unit as parseWeight of n, a space, then u.
C30_SameUnitWithOrWithoutSpace ==
  pc = "done"
    => \A n \in WeightNumbers, u \in WeightUnits :
         text = n \o u => out = parseWeight(n \o <<" ">> \o u)

\* the part of C30 that holds: the number is the same, and so is the unit mg
GluedUnitKeepsNumber ==
  pc = "done"
    => \A n \in WeightNumbers, u \in WeightUnits :
         text = n \o u
           => /\ out.value = parseWeight(n \o <<" ">> \o u).value
              /\ u = <<"m", "g">> => out.unit = u
              /\ u # <<"m", "g">> => out.unit = <<>>

====
